---------------------------- MODULE Spec2Model ----------------------------
(***************************************************************************)
(* Model of the train-ticket scanner                                       *)
(*   src/src/scripts/ticket_parsers/identify_ticket_details.py             *)
(*   src/src/scripts/ticket_parsers/trainline_ticket_digital_config.py     *)
(*                                                                         *)
(* Text is a sequence of Unicode code points (Python str), so that         *)
(* lower(), upper(), strip(), find(), slicing and regular-expression       *)
(* search are computed, not assumed.  Confidence values are in tenths      *)
(* (1.0 -> 10, 0.6 -> 6, 0.5 -> 5); region ratios are in hundredths; the   *)
(* classifier's weights and threshold are in tenths.                       *)
(***************************************************************************)
EXTENDS Integers, Sequences, FiniteSets, TLC

(***************************************************************************)
(* Python str operations                                                   *)
(***************************************************************************)
NL == 10

\* str.strip()/str.isspace() for the code points that occur: " \t\n\v\f\r"
IsSpace(c) == c \in {32, 9, 10, 11, 12, 13}

IsUpper(c) == c \in 65..90
IsLower(c) == c \in 97..122

LowerChar(c) == IF IsUpper(c) THEN c + 32 ELSE c
UpperChar(c) == IF IsLower(c) THEN c - 32 ELSE c

\* str.lower(), str.upper()
Lower(s) == [i \in 1..Len(s) |-> LowerChar(s[i])]
Upper(s) == [i \in 1..Len(s) |-> UpperChar(s[i])]

\* s[a:b] for 0 <= a, 0 <= b (Python clips both ends to len(s))
Slice(s, a, b) ==
    LET hi == IF b > Len(s) THEN Len(s) ELSE b
    IN  IF a >= hi THEN <<>> ELSE SubSeq(s, a + 1, hi)

\* s[:n]
Prefix(s, n) == Slice(s, 0, n)

\* s[-n:]
Suffix(s, n) == IF Len(s) <= n THEN s ELSE SubSeq(s, Len(s) - n + 1, Len(s))

\* sub occurs in s at 0-based offset i
OccursAt(sub, s, i) ==
    /\ i + Len(sub) <= Len(s)
    /\ \A k \in 1..Len(sub) : s[i + k] = sub[k]

\* "sub in s"
Contains(sub, s) == \E i \in 0..Len(s) : OccursAt(sub, s, i)

\* s.find(sub): the lowest offset, -1 when absent
Find(sub, s) ==
    IF Contains(sub, s)
    THEN CHOOSE i \in 0..Len(s) :
            /\ OccursAt(sub, s, i)
            /\ \A j \in 0..(i - 1) : ~OccursAt(sub, s, j)
    ELSE 0 - 1

\* s.strip()
Strip(s) ==
    LET keep == {i \in 1..Len(s) : ~IsSpace(s[i])}
    IN  IF keep = {} THEN <<>>
        ELSE LET lo == CHOOSE i \in keep : \A j \in keep : i <= j
                 hi == CHOOSE i \in keep : \A j \in keep : j <= i
             IN  SubSeq(s, lo, hi)

\* s.split('\n')[0]
FirstLine(s) ==
    LET nls == {i \in 1..Len(s) : s[i] = NL}
    IN  IF nls = {} THEN s
        ELSE SubSeq(s, 1, (CHOOSE i \in nls : \A j \in nls : i <= j) - 1)

\* sep.join(parts)
RECURSIVE Join(_, _)
Join(sep, parts) ==
    IF parts = <<>> THEN <<>>
    ELSE IF Len(parts) = 1 THEN parts[1]
    ELSE parts[1] \o sep \o Join(sep, Tail(parts))

\* str(n) for n >= 0
RECURSIVE Str(_)
Str(n) == IF n < 10 THEN <<48 + n>> ELSE Str(n \div 10) \o <<48 + (n % 10)>>

\* s with every code point of drop removed: re.sub('[...]', '', s)
RemoveChars(s, drop) == SelectSeq(s, LAMBDA c : c \notin drop)

\* s.replace(old, new), old non-empty, left to right, non-overlapping
RECURSIVE Replace(_, _, _)
Replace(s, old, new) ==
    IF ~Contains(old, s) THEN s
    ELSE Prefix(s, Find(old, s)) \o new
            \o Replace(Slice(s, Find(old, s) + Len(old), Len(s)), old, new)

(***************************************************************************)
(* re.search(pattern, text, re.IGNORECASE | re.MULTILINE)                  *)
(*                                                                         *)
(* A pattern is the parse of its source: a sequence of nodes.  Match       *)
(* returns the end offsets of the matches that start at offset i, in the   *)
(* order the backtracking matcher tries them; the first one is the match.  *)
(***************************************************************************)
Unbounded == 0 - 1

Lit(s)            == [t |-> "lit", s |-> s]
In(S)             == [t |-> "in", set |-> S]
AnyChar           == [t |-> "any"]
AtEnd             == [t |-> "at_end"]
Group(sub)        == [t |-> "group", sub |-> sub]
Branch(alts)      == [t |-> "branch", alts |-> alts]
MaxRepeat(lo, hi, sub) == [t |-> "repeat", lo |-> lo, hi |-> hi, greedy |-> TRUE, sub |-> sub]
MinRepeat(lo, hi, sub) == [t |-> "repeat", lo |-> lo, hi |-> hi, greedy |-> FALSE, sub |-> sub]

Space  == {32, 9, 10, 11, 12, 13}
Digit  == 48..57
AZ     == 65..90
az     == 97..122

\* re.IGNORECASE: a character matches when either of its cases does
SameChar(c, d) == LowerChar(c) = LowerChar(d)
InSet(c, S)    == LowerChar(c) \in S \/ UpperChar(c) \in S

RECURSIVE MatchSeq(_, _, _), MatchNode(_, _, _), MatchRepeat(_, _, _, _)
RECURSIVE MatchEach(_, _, _), MatchAlts(_, _, _), RepeatEach(_, _, _, _)

\* the sequence `nodes`, tried from each offset of `ends` in order
MatchEach(nodes, s, ends) ==
    IF ends = <<>> THEN <<>>
    ELSE IF Len(ends) = 1 THEN MatchSeq(nodes, s, ends[1])
    ELSE LET half == Len(ends) \div 2
         IN  MatchEach(nodes, s, SubSeq(ends, 1, half))
                \o MatchEach(nodes, s, SubSeq(ends, half + 1, Len(ends)))

\* `nodes` matched one after the other from offset i
MatchSeq(nodes, s, i) ==
    IF nodes = <<>> THEN <<i>>
    ELSE MatchEach(Tail(nodes), s, MatchNode(Head(nodes), s, i))

MatchAlts(alts, s, i) ==
    IF alts = <<>> THEN <<>>
    ELSE MatchSeq(Head(alts), s, i) \o MatchAlts(Tail(alts), s, i)

\* the repetition continued from each offset of `ends` in order
RepeatEach(n, s, ends, k) ==
    IF ends = <<>> THEN <<>>
    ELSE MatchRepeat(n, s, Head(ends), k) \o RepeatEach(n, s, Tail(ends), k)

\* a node that matches one character is repeated without backtracking into
\* it: Run is the number of characters from offset i that it takes, at most
\* hi of them
OneChar(n) == n.t \in {"in", "any"}

Takes(n, s, i) ==
    /\ i < Len(s)
    /\ IF n.t = "in" THEN InSet(s[i + 1], n.set) ELSE s[i + 1] # NL

Run(n, s, i, hi) ==
    LET cap == IF hi = Unbounded \/ hi > Len(s) - i THEN Len(s) - i ELSE hi
    IN  CHOOSE m \in 0..cap :
            /\ \A j \in 0..(m - 1) : Takes(n, s, i + j)
            /\ m = cap \/ ~Takes(n, s, i + m)

\* the end offsets after lo..m characters, longest first when greedy
RunEnds(i, lo, m, greedy) ==
    IF m < lo THEN <<>>
    ELSE [k \in 1..(m - lo + 1) |-> IF greedy THEN i + m + 1 - k ELSE i + lo + k - 1]

\* k repetitions done; an iteration that consumes nothing is not repeated
MatchRepeat(n, s, i, k) ==
    LET more == IF n.hi = Unbounded \/ k < n.hi
                THEN RepeatEach(n, s, SelectSeq(MatchSeq(n.sub, s, i), LAMBDA e : e > i), k + 1)
                ELSE <<>>
        stop == IF k >= n.lo THEN <<i>> ELSE <<>>
    IN  IF k = 0 /\ Len(n.sub) = 1 /\ OneChar(n.sub[1])
        THEN RunEnds(i, n.lo, Run(n.sub[1], s, i, n.hi), n.greedy)
        ELSE IF n.greedy THEN more \o stop ELSE stop \o more

MatchNode(n, s, i) ==
    CASE n.t = "lit" ->
            IF /\ i + Len(n.s) <= Len(s)
               /\ \A k \in 1..Len(n.s) : SameChar(s[i + k], n.s[k])
            THEN <<i + Len(n.s)>> ELSE <<>>
      [] n.t = "in" ->
            IF i < Len(s) /\ InSet(s[i + 1], n.set) THEN <<i + 1>> ELSE <<>>
      [] n.t = "any" ->
            IF i < Len(s) /\ s[i + 1] # NL THEN <<i + 1>> ELSE <<>>
      [] n.t = "at_end" ->
            IF i = Len(s) \/ s[i + 1] = NL THEN <<i>> ELSE <<>>
      [] n.t = "group" -> MatchSeq(n.sub, s, i)
      [] n.t = "branch" -> MatchAlts(n.alts, s, i)
      [] n.t = "repeat" -> MatchRepeat(n, s, i, 0)

NoMatch == [found |-> FALSE]

\* re.search: the match at the leftmost offset that has one; group(0) is its text
Search(pattern, s) ==
    LET starts == {i \in 0..Len(s) : MatchSeq(pattern, s, i) # <<>>}
    IN  IF starts = {} THEN NoMatch
        ELSE LET i == CHOOSE a \in starts : \A b \in starts : a <= b
             IN  [found |-> TRUE, group0 |-> Slice(s, i, MatchSeq(pattern, s, i)[1])]

(***************************************************************************)
(* Configuration tables                                                    *)
(***************************************************************************)
\* @dataclass TicketField: name, patterns, region (None is <<>>)
TicketField(name, patterns, region) ==
    [name |-> name, patterns |-> patterns, region |-> region]

\* a pattern string and its parse
Pattern(src, parsed) == [src |-> src, re |-> parsed]

\* configs["generic"]
GenericFields == <<
    TicketField("origin_station", <<
        \* r"(?:From|Origin)[:\s]+(.+?)(?:\s+to|\s*$|[,\.])"
        Pattern(<<40, 63, 58, 70, 114, 111, 109, 124, 79, 114, 105, 103, 105, 110, 41, 91, 58, 92, 115, 93, 43, 40, 46, 43, 63, 41, 40, 63, 58, 92, 115, 43, 116, 111, 124, 92, 115, 42, 36, 124, 91, 44, 92, 46, 93, 41>>,
                <<Branch(<<<<Lit(<<70, 114, 111, 109>>)>>, <<Lit(<<79, 114, 105, 103, 105, 110>>)>>>>), MaxRepeat(1, Unbounded, <<In(Space \cup {58})>>), Group(<<MinRepeat(1, Unbounded, <<AnyChar>>)>>), Branch(<<<<MaxRepeat(1, Unbounded, <<In(Space)>>), Lit(<<116, 111>>)>>, <<MaxRepeat(0, Unbounded, <<In(Space)>>), AtEnd>>, <<In({44, 46})>>>>)>>),
        \* r"ORIGIN[:\s]+(.+?)(?:\s+to|\s*$|[,\.])"
        Pattern(<<79, 82, 73, 71, 73, 78, 91, 58, 92, 115, 93, 43, 40, 46, 43, 63, 41, 40, 63, 58, 92, 115, 43, 116, 111, 124, 92, 115, 42, 36, 124, 91, 44, 92, 46, 93, 41>>,
                <<Lit(<<79, 82, 73, 71, 73, 78>>), MaxRepeat(1, Unbounded, <<In(Space \cup {58})>>), Group(<<MinRepeat(1, Unbounded, <<AnyChar>>)>>), Branch(<<<<MaxRepeat(1, Unbounded, <<In(Space)>>), Lit(<<116, 111>>)>>, <<MaxRepeat(0, Unbounded, <<In(Space)>>), AtEnd>>, <<In({44, 46})>>>>)>>)
        >>, <<5, 20, 45, 40>>),
    TicketField("destination_station", <<
        \* r"(?:To|Destination)[:\s]+(.+?)(?:\s*$|[,\.])"
        Pattern(<<40, 63, 58, 84, 111, 124, 68, 101, 115, 116, 105, 110, 97, 116, 105, 111, 110, 41, 91, 58, 92, 115, 93, 43, 40, 46, 43, 63, 41, 40, 63, 58, 92, 115, 42, 36, 124, 91, 44, 92, 46, 93, 41>>,
                <<Branch(<<<<Lit(<<84, 111>>)>>, <<Lit(<<68, 101, 115, 116, 105, 110, 97, 116, 105, 111, 110>>)>>>>), MaxRepeat(1, Unbounded, <<In(Space \cup {58})>>), Group(<<MinRepeat(1, Unbounded, <<AnyChar>>)>>), Branch(<<<<MaxRepeat(0, Unbounded, <<In(Space)>>), AtEnd>>, <<In({44, 46})>>>>)>>),
        \* r"DESTINATION[:\s]+(.+?)(?:\s*$|[,\.])"
        Pattern(<<68, 69, 83, 84, 73, 78, 65, 84, 73, 79, 78, 91, 58, 92, 115, 93, 43, 40, 46, 43, 63, 41, 40, 63, 58, 92, 115, 42, 36, 124, 91, 44, 92, 46, 93, 41>>,
                <<Lit(<<68, 69, 83, 84, 73, 78, 65, 84, 73, 79, 78>>), MaxRepeat(1, Unbounded, <<In(Space \cup {58})>>), Group(<<MinRepeat(1, Unbounded, <<AnyChar>>)>>), Branch(<<<<MaxRepeat(0, Unbounded, <<In(Space)>>), AtEnd>>, <<In({44, 46})>>>>)>>)
        >>, <<55, 20, 95, 40>>),
    TicketField("date", <<
        \* r"(?:Date|Valid)[:\s]+([0-9]{1,2}[\/\.\-][0-9]{1,2}[\/\.\-][0-9]{2,4})"
        Pattern(<<40, 63, 58, 68, 97, 116, 101, 124, 86, 97, 108, 105, 100, 41, 91, 58, 92, 115, 93, 43, 40, 91, 48, 45, 57, 93, 123, 49, 44, 50, 125, 91, 92, 47, 92, 46, 92, 45, 93, 91, 48, 45, 57, 93, 123, 49, 44, 50, 125, 91, 92, 47, 92, 46, 92, 45, 93, 91, 48, 45, 57, 93, 123, 50, 44, 52, 125, 41>>,
                <<Branch(<<<<Lit(<<68, 97, 116, 101>>)>>, <<Lit(<<86, 97, 108, 105, 100>>)>>>>), MaxRepeat(1, Unbounded, <<In(Space \cup {58})>>), Group(<<MaxRepeat(1, 2, <<In(Digit)>>), In({47, 46, 45}), MaxRepeat(1, 2, <<In(Digit)>>), In({47, 46, 45}), MaxRepeat(2, 4, <<In(Digit)>>)>>)>>),
        \* r"(?:Date|Valid)[:\s]+([0-9]{1,2}(?:st|nd|rd|th)?\s+[A-Za-z]+\s+[0-9]{2,4})"
        Pattern(<<40, 63, 58, 68, 97, 116, 101, 124, 86, 97, 108, 105, 100, 41, 91, 58, 92, 115, 93, 43, 40, 91, 48, 45, 57, 93, 123, 49, 44, 50, 125, 40, 63, 58, 115, 116, 124, 110, 100, 124, 114, 100, 124, 116, 104, 41, 63, 92, 115, 43, 91, 65, 45, 90, 97, 45, 122, 93, 43, 92, 115, 43, 91, 48, 45, 57, 93, 123, 50, 44, 52, 125, 41>>,
                <<Branch(<<<<Lit(<<68, 97, 116, 101>>)>>, <<Lit(<<86, 97, 108, 105, 100>>)>>>>), MaxRepeat(1, Unbounded, <<In(Space \cup {58})>>), Group(<<MaxRepeat(1, 2, <<In(Digit)>>), MaxRepeat(0, 1, <<Branch(<<<<Lit(<<115, 116>>)>>, <<Lit(<<110, 100>>)>>, <<Lit(<<114, 100>>)>>, <<Lit(<<116, 104>>)>>>>)>>), MaxRepeat(1, Unbounded, <<In(Space)>>), MaxRepeat(1, Unbounded, <<In(AZ \cup az)>>), MaxRepeat(1, Unbounded, <<In(Space)>>), MaxRepeat(2, 4, <<In(Digit)>>)>>)>>)
        >>, <<10, 40, 90, 60>>),
    TicketField("ticket_type", <<
        \* r"(?:Type|Class)[:\s]+(.+?)(?:\s*$|[,\.])"
        Pattern(<<40, 63, 58, 84, 121, 112, 101, 124, 67, 108, 97, 115, 115, 41, 91, 58, 92, 115, 93, 43, 40, 46, 43, 63, 41, 40, 63, 58, 92, 115, 42, 36, 124, 91, 44, 92, 46, 93, 41>>,
                <<Branch(<<<<Lit(<<84, 121, 112, 101>>)>>, <<Lit(<<67, 108, 97, 115, 115>>)>>>>), MaxRepeat(1, Unbounded, <<In(Space \cup {58})>>), Group(<<MinRepeat(1, Unbounded, <<AnyChar>>)>>), Branch(<<<<MaxRepeat(0, Unbounded, <<In(Space)>>), AtEnd>>, <<In({44, 46})>>>>)>>),
        \* r"(STANDARD|FIRST|1ST|ANYTIME|OFF-PEAK|SUPER OFF-PEAK)(?:\s+CLASS)?"
        Pattern(<<40, 83, 84, 65, 78, 68, 65, 82, 68, 124, 70, 73, 82, 83, 84, 124, 49, 83, 84, 124, 65, 78, 89, 84, 73, 77, 69, 124, 79, 70, 70, 45, 80, 69, 65, 75, 124, 83, 85, 80, 69, 82, 32, 79, 70, 70, 45, 80, 69, 65, 75, 41, 40, 63, 58, 92, 115, 43, 67, 76, 65, 83, 83, 41, 63>>,
                <<Group(<<Branch(<<<<Lit(<<83, 84, 65, 78, 68, 65, 82, 68>>)>>, <<Lit(<<70, 73, 82, 83, 84>>)>>, <<Lit(<<49, 83, 84>>)>>, <<Lit(<<65, 78, 89, 84, 73, 77, 69>>)>>, <<Lit(<<79, 70, 70, 45, 80, 69, 65, 75>>)>>, <<Lit(<<83, 85, 80, 69, 82, 32, 79, 70, 70, 45, 80, 69, 65, 75>>)>>>>)>>), MaxRepeat(0, 1, <<MaxRepeat(1, Unbounded, <<In(Space)>>), Lit(<<67, 76, 65, 83, 83>>)>>)>>)
        >>, <<10, 50, 90, 70>>),
    TicketField("price", <<
        \* r"(?:Price|Cost|Fare)[:\s]*£?([0-9]+\.[0-9]{2})"
        Pattern(<<40, 63, 58, 80, 114, 105, 99, 101, 124, 67, 111, 115, 116, 124, 70, 97, 114, 101, 41, 91, 58, 92, 115, 93, 42, 163, 63, 40, 91, 48, 45, 57, 93, 43, 92, 46, 91, 48, 45, 57, 93, 123, 50, 125, 41>>,
                <<Branch(<<<<Lit(<<80, 114, 105, 99, 101>>)>>, <<Lit(<<67, 111, 115, 116>>)>>, <<Lit(<<70, 97, 114, 101>>)>>>>), MaxRepeat(0, Unbounded, <<In(Space \cup {58})>>), MaxRepeat(0, 1, <<Lit(<<163>>)>>), Group(<<MaxRepeat(1, Unbounded, <<In(Digit)>>), Lit(<<46>>), MaxRepeat(2, 2, <<In(Digit)>>)>>)>>),
        \* r"£([0-9]+\.[0-9]{2})"
        Pattern(<<163, 40, 91, 48, 45, 57, 93, 43, 92, 46, 91, 48, 45, 57, 93, 123, 50, 125, 41>>,
                <<Lit(<<163>>), Group(<<MaxRepeat(1, Unbounded, <<In(Digit)>>), Lit(<<46>>), MaxRepeat(2, 2, <<In(Digit)>>)>>)>>)
        >>, <<70, 70, 95, 90>>),
    TicketField("ticket_reference", <<
        \* r"(?:Reference|Ref)[:\s]*([A-Z0-9-]+)"
        Pattern(<<40, 63, 58, 82, 101, 102, 101, 114, 101, 110, 99, 101, 124, 82, 101, 102, 41, 91, 58, 92, 115, 93, 42, 40, 91, 65, 45, 90, 48, 45, 57, 45, 93, 43, 41>>,
                <<Lit(<<82, 101, 102>>), Branch(<<<<Lit(<<101, 114, 101, 110, 99, 101>>)>>, <<>>>>), MaxRepeat(0, Unbounded, <<In(Space \cup {58})>>), Group(<<MaxRepeat(1, Unbounded, <<In(AZ \cup Digit \cup {45})>>)>>)>>),
        \* r"([A-Z0-9]{2,}-[A-Z0-9]{2,}-[A-Z0-9]{2,})"
        Pattern(<<40, 91, 65, 45, 90, 48, 45, 57, 93, 123, 50, 44, 125, 45, 91, 65, 45, 90, 48, 45, 57, 93, 123, 50, 44, 125, 45, 91, 65, 45, 90, 48, 45, 57, 93, 123, 50, 44, 125, 41>>,
                <<Group(<<MaxRepeat(2, Unbounded, <<In(AZ \cup Digit)>>), Lit(<<45>>), MaxRepeat(2, Unbounded, <<In(AZ \cup Digit)>>), Lit(<<45>>), MaxRepeat(2, Unbounded, <<In(AZ \cup Digit)>>)>>)>>)
        >>, <<40, 80, 90, 95>>)
>>

\* configs["gwr"]
GwrFields == <<
    TicketField("origin_station", <<
        \* r"FROM\s+(.+?)(?:\s+TO|\s*$|[,\.])"
        Pattern(<<70, 82, 79, 77, 92, 115, 43, 40, 46, 43, 63, 41, 40, 63, 58, 92, 115, 43, 84, 79, 124, 92, 115, 42, 36, 124, 91, 44, 92, 46, 93, 41>>,
                <<Lit(<<70, 82, 79, 77>>), MaxRepeat(1, Unbounded, <<In(Space)>>), Group(<<MinRepeat(1, Unbounded, <<AnyChar>>)>>), Branch(<<<<MaxRepeat(1, Unbounded, <<In(Space)>>), Lit(<<84, 79>>)>>, <<MaxRepeat(0, Unbounded, <<In(Space)>>), AtEnd>>, <<In({44, 46})>>>>)>>),
        \* r"(?:From|Origin)[:\s]+(.+?)(?:\s+to|\s*$|[,\.])"
        Pattern(<<40, 63, 58, 70, 114, 111, 109, 124, 79, 114, 105, 103, 105, 110, 41, 91, 58, 92, 115, 93, 43, 40, 46, 43, 63, 41, 40, 63, 58, 92, 115, 43, 116, 111, 124, 92, 115, 42, 36, 124, 91, 44, 92, 46, 93, 41>>,
                <<Branch(<<<<Lit(<<70, 114, 111, 109>>)>>, <<Lit(<<79, 114, 105, 103, 105, 110>>)>>>>), MaxRepeat(1, Unbounded, <<In(Space \cup {58})>>), Group(<<MinRepeat(1, Unbounded, <<AnyChar>>)>>), Branch(<<<<MaxRepeat(1, Unbounded, <<In(Space)>>), Lit(<<116, 111>>)>>, <<MaxRepeat(0, Unbounded, <<In(Space)>>), AtEnd>>, <<In({44, 46})>>>>)>>)
        >>, <<5, 20, 45, 30>>),
    TicketField("destination_station", <<
        \* r"TO\s+(.+?)(?:\s*$|[,\.])"
        Pattern(<<84, 79, 92, 115, 43, 40, 46, 43, 63, 41, 40, 63, 58, 92, 115, 42, 36, 124, 91, 44, 92, 46, 93, 41>>,
                <<Lit(<<84, 79>>), MaxRepeat(1, Unbounded, <<In(Space)>>), Group(<<MinRepeat(1, Unbounded, <<AnyChar>>)>>), Branch(<<<<MaxRepeat(0, Unbounded, <<In(Space)>>), AtEnd>>, <<In({44, 46})>>>>)>>),
        \* r"(?:To|Destination)[:\s]+(.+?)(?:\s*$|[,\.])"
        Pattern(<<40, 63, 58, 84, 111, 124, 68, 101, 115, 116, 105, 110, 97, 116, 105, 111, 110, 41, 91, 58, 92, 115, 93, 43, 40, 46, 43, 63, 41, 40, 63, 58, 92, 115, 42, 36, 124, 91, 44, 92, 46, 93, 41>>,
                <<Branch(<<<<Lit(<<84, 111>>)>>, <<Lit(<<68, 101, 115, 116, 105, 110, 97, 116, 105, 111, 110>>)>>>>), MaxRepeat(1, Unbounded, <<In(Space \cup {58})>>), Group(<<MinRepeat(1, Unbounded, <<AnyChar>>)>>), Branch(<<<<MaxRepeat(0, Unbounded, <<In(Space)>>), AtEnd>>, <<In({44, 46})>>>>)>>)
        >>, <<55, 20, 95, 30>>),
    TicketField("date", <<
        \* r"VALID\s+(?:ON|FOR)\s+(.+?)(?:\s*$|[,\.])"
        Pattern(<<86, 65, 76, 73, 68, 92, 115, 43, 40, 63, 58, 79, 78, 124, 70, 79, 82, 41, 92, 115, 43, 40, 46, 43, 63, 41, 40, 63, 58, 92, 115, 42, 36, 124, 91, 44, 92, 46, 93, 41>>,
                <<Lit(<<86, 65, 76, 73, 68>>), MaxRepeat(1, Unbounded, <<In(Space)>>), Branch(<<<<Lit(<<79, 78>>)>>, <<Lit(<<70, 79, 82>>)>>>>), MaxRepeat(1, Unbounded, <<In(Space)>>), Group(<<MinRepeat(1, Unbounded, <<AnyChar>>)>>), Branch(<<<<MaxRepeat(0, Unbounded, <<In(Space)>>), AtEnd>>, <<In({44, 46})>>>>)>>),
        \* r"(?:Date|Valid)[:\s]+(.+?)(?:\s*$|[,\.])"
        Pattern(<<40, 63, 58, 68, 97, 116, 101, 124, 86, 97, 108, 105, 100, 41, 91, 58, 92, 115, 93, 43, 40, 46, 43, 63, 41, 40, 63, 58, 92, 115, 42, 36, 124, 91, 44, 92, 46, 93, 41>>,
                <<Branch(<<<<Lit(<<68, 97, 116, 101>>)>>, <<Lit(<<86, 97, 108, 105, 100>>)>>>>), MaxRepeat(1, Unbounded, <<In(Space \cup {58})>>), Group(<<MinRepeat(1, Unbounded, <<AnyChar>>)>>), Branch(<<<<MaxRepeat(0, Unbounded, <<In(Space)>>), AtEnd>>, <<In({44, 46})>>>>)>>)
        >>, <<10, 30, 90, 40>>),
    TicketField("ticket_type", <<
        \* r"(STANDARD|FIRST)\s+CLASS"
        Pattern(<<40, 83, 84, 65, 78, 68, 65, 82, 68, 124, 70, 73, 82, 83, 84, 41, 92, 115, 43, 67, 76, 65, 83, 83>>,
                <<Group(<<Branch(<<<<Lit(<<83, 84, 65, 78, 68, 65, 82, 68>>)>>, <<Lit(<<70, 73, 82, 83, 84>>)>>>>)>>), MaxRepeat(1, Unbounded, <<In(Space)>>), Lit(<<67, 76, 65, 83, 83>>)>>),
        \* r"(ANYTIME|OFF-PEAK|SUPER OFF-PEAK)"
        Pattern(<<40, 65, 78, 89, 84, 73, 77, 69, 124, 79, 70, 70, 45, 80, 69, 65, 75, 124, 83, 85, 80, 69, 82, 32, 79, 70, 70, 45, 80, 69, 65, 75, 41>>,
                <<Group(<<Branch(<<<<Lit(<<65, 78, 89, 84, 73, 77, 69>>)>>, <<Lit(<<79, 70, 70, 45, 80, 69, 65, 75>>)>>, <<Lit(<<83, 85, 80, 69, 82, 32, 79, 70, 70, 45, 80, 69, 65, 75>>)>>>>)>>)>>)
        >>, <<10, 40, 90, 50>>),
    TicketField("price", <<
        \* r"£([0-9]+\.[0-9]{2})"
        Pattern(<<163, 40, 91, 48, 45, 57, 93, 43, 92, 46, 91, 48, 45, 57, 93, 123, 50, 125, 41>>,
                <<Lit(<<163>>), Group(<<MaxRepeat(1, Unbounded, <<In(Digit)>>), Lit(<<46>>), MaxRepeat(2, 2, <<In(Digit)>>)>>)>>),
        \* r"GBP\s+([0-9]+\.[0-9]{2})"
        Pattern(<<71, 66, 80, 92, 115, 43, 40, 91, 48, 45, 57, 93, 43, 92, 46, 91, 48, 45, 57, 93, 123, 50, 125, 41>>,
                <<Lit(<<71, 66, 80>>), MaxRepeat(1, Unbounded, <<In(Space)>>), Group(<<MaxRepeat(1, Unbounded, <<In(Digit)>>), Lit(<<46>>), MaxRepeat(2, 2, <<In(Digit)>>)>>)>>)
        >>, <<70, 70, 95, 80>>),
    TicketField("ticket_reference", <<
        \* r"TICKET\s+NUMBER\s+([A-Z0-9-]+)"
        Pattern(<<84, 73, 67, 75, 69, 84, 92, 115, 43, 78, 85, 77, 66, 69, 82, 92, 115, 43, 40, 91, 65, 45, 90, 48, 45, 57, 45, 93, 43, 41>>,
                <<Lit(<<84, 73, 67, 75, 69, 84>>), MaxRepeat(1, Unbounded, <<In(Space)>>), Lit(<<78, 85, 77, 66, 69, 82>>), MaxRepeat(1, Unbounded, <<In(Space)>>), Group(<<MaxRepeat(1, Unbounded, <<In(AZ \cup Digit \cup {45})>>)>>)>>),
        \* r"REF[:\s]+([A-Z0-9-]+)"
        Pattern(<<82, 69, 70, 91, 58, 92, 115, 93, 43, 40, 91, 65, 45, 90, 48, 45, 57, 45, 93, 43, 41>>,
                <<Lit(<<82, 69, 70>>), MaxRepeat(1, Unbounded, <<In(Space \cup {58})>>), Group(<<MaxRepeat(1, Unbounded, <<In(AZ \cup Digit \cup {45})>>)>>)>>)
        >>, <<40, 80, 90, 95>>)
>>

\* get_trainline_configuration(): regions (x1, y1, x2, y2), ratios of the image size
get_trainline_configuration == <<
    TicketField("ticket_provider", <<
        \* r"(Eticket)"
        Pattern(<<40, 69, 116, 105, 99, 107, 101, 116, 41>>,
                <<Group(<<Lit(<<69, 116, 105, 99, 107, 101, 116>>)>>)>>),
        \* r"(Trainline)"
        Pattern(<<40, 84, 114, 97, 105, 110, 108, 105, 110, 101, 41>>,
                <<Group(<<Lit(<<84, 114, 97, 105, 110, 108, 105, 110, 101>>)>>)>>)
        >>, <<13, 12, 30, 14>>),
    TicketField("origin_station", <<
        \* r"([A-Za-z\s]+(?::STATIONS)?)"
        Pattern(<<40, 91, 65, 45, 90, 97, 45, 122, 92, 115, 93, 43, 40, 63, 58, 58, 83, 84, 65, 84, 73, 79, 78, 83, 41, 63, 41>>,
                <<Group(<<MaxRepeat(1, Unbounded, <<In(AZ \cup az \cup Space)>>), MaxRepeat(0, 1, <<Lit(<<58, 83, 84, 65, 84, 73, 79, 78, 83>>)>>)>>)>>)
        >>, <<0, 49, 50, 53>>),
    TicketField("origin_code", <<
        \* r"([A-Z]{3})"
        Pattern(<<40, 91, 65, 45, 90, 93, 123, 51, 125, 41>>,
                <<Group(<<MaxRepeat(3, 3, <<In(AZ)>>)>>)>>)
        >>, <<0, 50, 46, 61>>),
    TicketField("destination_station", <<
        \* r"([A-Za-z\s]+)"
        Pattern(<<40, 91, 65, 45, 90, 97, 45, 122, 92, 115, 93, 43, 41>>,
                <<Group(<<MaxRepeat(1, Unbounded, <<In(AZ \cup az \cup Space)>>)>>)>>)
        >>, <<50, 49, 100, 53>>),
    TicketField("destination_code", <<
        \* r"(GRA)"
        Pattern(<<40, 71, 82, 65, 41>>,
                <<Group(<<Lit(<<71, 82, 65>>)>>)>>),
        \* r"([A-Z]{3})"
        Pattern(<<40, 91, 65, 45, 90, 93, 123, 51, 125, 41>>,
                <<Group(<<MaxRepeat(3, 3, <<In(AZ)>>)>>)>>)
        >>, <<50, 50, 100, 61>>),
    TicketField("travel_date", <<
        \* r"(\d{2}\s+[A-Za-z]{3}\s+\d{4})"
        Pattern(<<40, 92, 100, 123, 50, 125, 92, 115, 43, 91, 65, 45, 90, 97, 45, 122, 93, 123, 51, 125, 92, 115, 43, 92, 100, 123, 52, 125, 41>>,
                <<Group(<<MaxRepeat(2, 2, <<In(Digit)>>), MaxRepeat(1, Unbounded, <<In(Space)>>), MaxRepeat(3, 3, <<In(AZ \cup az)>>), MaxRepeat(1, Unbounded, <<In(Space)>>), MaxRepeat(4, 4, <<In(Digit)>>)>>)>>),
        \* r"08\s+Feb\s+2025"
        Pattern(<<48, 56, 92, 115, 43, 70, 101, 98, 92, 115, 43, 50, 48, 50, 53>>,
                <<Lit(<<48, 56>>), MaxRepeat(1, Unbounded, <<In(Space)>>), Lit(<<70, 101, 98>>), MaxRepeat(1, Unbounded, <<In(Space)>>), Lit(<<50, 48, 50, 53>>)>>)
        >>, <<22, 58, 40, 60>>),
    TicketField("journey_direction", <<
        \* r"(Ret):\s+[A-Z]{3}\s*-\s*[A-Z]{3}"
        Pattern(<<40, 82, 101, 116, 41, 58, 92, 115, 43, 91, 65, 45, 90, 93, 123, 51, 125, 92, 115, 42, 45, 92, 115, 42, 91, 65, 45, 90, 93, 123, 51, 125>>,
                <<Group(<<Lit(<<82, 101, 116>>)>>), Lit(<<58>>), MaxRepeat(1, Unbounded, <<In(Space)>>), MaxRepeat(3, 3, <<In(AZ)>>), MaxRepeat(0, Unbounded, <<In(Space)>>), Lit(<<45>>), MaxRepeat(0, Unbounded, <<In(Space)>>), MaxRepeat(3, 3, <<In(AZ)>>)>>),
        \* r"Out:\s+[A-Z]{3}\s*-\s*[A-Z]{3}"
        Pattern(<<79, 117, 116, 58, 92, 115, 43, 91, 65, 45, 90, 93, 123, 51, 125, 92, 115, 42, 45, 92, 115, 42, 91, 65, 45, 90, 93, 123, 51, 125>>,
                <<Lit(<<79, 117, 116, 58>>), MaxRepeat(1, Unbounded, <<In(Space)>>), MaxRepeat(3, 3, <<In(AZ)>>), MaxRepeat(0, Unbounded, <<In(Space)>>), Lit(<<45>>), MaxRepeat(0, Unbounded, <<In(Space)>>), MaxRepeat(3, 3, <<In(AZ)>>)>>)
        >>, <<50, 35, 100, 50>>),
    TicketField("ticket_type", <<
        \* r"(Off-Peak|Anytime|Advance|Super Off-Peak)(?:\s+Return|Single)?"
        Pattern(<<40, 79, 102, 102, 45, 80, 101, 97, 107, 124, 65, 110, 121, 116, 105, 109, 101, 124, 65, 100, 118, 97, 110, 99, 101, 124, 83, 117, 112, 101, 114, 32, 79, 102, 102, 45, 80, 101, 97, 107, 41, 40, 63, 58, 92, 115, 43, 82, 101, 116, 117, 114, 110, 124, 83, 105, 110, 103, 108, 101, 41, 63>>,
                <<Group(<<Branch(<<<<Lit(<<79, 102, 102, 45, 80, 101, 97, 107>>)>>, <<Lit(<<65, 110, 121, 116, 105, 109, 101>>)>>, <<Lit(<<65, 100, 118, 97, 110, 99, 101>>)>>, <<Lit(<<83, 117, 112, 101, 114, 32, 79, 102, 102, 45, 80, 101, 97, 107>>)>>>>)>>), MaxRepeat(0, 1, <<Branch(<<<<MaxRepeat(1, Unbounded, <<In(Space)>>), Lit(<<82, 101, 116, 117, 114, 110>>)>>, <<Lit(<<83, 105, 110, 103, 108, 101>>)>>>>)>>)>>)
        >>, <<0, 50, 60, 80>>),
    TicketField("route", <<
        \* r"(Any Permitted)"
        Pattern(<<40, 65, 110, 121, 32, 80, 101, 114, 109, 105, 116, 116, 101, 100, 41>>,
                <<Group(<<Lit(<<65, 110, 121, 32, 80, 101, 114, 109, 105, 116, 116, 101, 100>>)>>)>>),
        \* r"(Not via .+|Via .+|Any Permitted)"
        Pattern(<<40, 78, 111, 116, 32, 118, 105, 97, 32, 46, 43, 124, 86, 105, 97, 32, 46, 43, 124, 65, 110, 121, 32, 80, 101, 114, 109, 105, 116, 116, 101, 100, 41>>,
                <<Group(<<Branch(<<<<Lit(<<78, 111, 116, 32, 118, 105, 97, 32>>), MaxRepeat(1, Unbounded, <<AnyChar>>)>>, <<Lit(<<86, 105, 97, 32>>), MaxRepeat(1, Unbounded, <<AnyChar>>)>>, <<Lit(<<65, 110, 121, 32, 80, 101, 114, 109, 105, 116, 116, 101, 100>>)>>>>)>>)>>)
        >>, <<55, 50, 100, 80>>),
    TicketField("passenger_type", <<
        \* r"(ADULT)"
        Pattern(<<40, 65, 68, 85, 76, 84, 41>>,
                <<Group(<<Lit(<<65, 68, 85, 76, 84>>)>>)>>),
        \* r"(CHILD)"
        Pattern(<<40, 67, 72, 73, 76, 68, 41>>,
                <<Group(<<Lit(<<67, 72, 73, 76, 68>>)>>)>>)
        >>, <<6, 80, 20, 83>>),
    TicketField("railcard", <<
        \* r"(26-30 Railcard)"
        Pattern(<<40, 50, 54, 45, 51, 48, 32, 82, 97, 105, 108, 99, 97, 114, 100, 41>>,
                <<Group(<<Lit(<<50, 54, 45, 51, 48, 32, 82, 97, 105, 108, 99, 97, 114, 100>>)>>)>>),
        \* r"(\d{2}-\d{2}\s+Railcard)"
        Pattern(<<40, 92, 100, 123, 50, 125, 45, 92, 100, 123, 50, 125, 92, 115, 43, 82, 97, 105, 108, 99, 97, 114, 100, 41>>,
                <<Group(<<MaxRepeat(2, 2, <<In(Digit)>>), Lit(<<45>>), MaxRepeat(2, 2, <<In(Digit)>>), MaxRepeat(1, Unbounded, <<In(Space)>>), Lit(<<82, 97, 105, 108, 99, 97, 114, 100>>)>>)>>),
        \* r"([A-Za-z\s\-]+Railcard)"
        Pattern(<<40, 91, 65, 45, 90, 97, 45, 122, 92, 115, 92, 45, 93, 43, 82, 97, 105, 108, 99, 97, 114, 100, 41>>,
                <<Group(<<MaxRepeat(1, Unbounded, <<In(AZ \cup az \cup Space \cup {45})>>), Lit(<<82, 97, 105, 108, 99, 97, 114, 100>>)>>)>>)
        >>, <<6, 83, 40, 85>>),
    TicketField("valid_until", <<
        \* r"(\d{2}\s+[A-Za-z]{3}\s+\d{4})"
        Pattern(<<40, 92, 100, 123, 50, 125, 92, 115, 43, 91, 65, 45, 90, 97, 45, 122, 93, 123, 51, 125, 92, 115, 43, 92, 100, 123, 52, 125, 41>>,
                <<Group(<<MaxRepeat(2, 2, <<In(Digit)>>), MaxRepeat(1, Unbounded, <<In(Space)>>), MaxRepeat(3, 3, <<In(AZ \cup az)>>), MaxRepeat(1, Unbounded, <<In(Space)>>), MaxRepeat(4, 4, <<In(Digit)>>)>>)>>),
        \* r"07\s+Mar\s+2025"
        Pattern(<<48, 55, 92, 115, 43, 77, 97, 114, 92, 115, 43, 50, 48, 50, 53>>,
                <<Lit(<<48, 55>>), MaxRepeat(1, Unbounded, <<In(Space)>>), Lit(<<77, 97, 114>>), MaxRepeat(1, Unbounded, <<In(Space)>>), Lit(<<50, 48, 50, 53>>)>>)
        >>, <<55, 83, 94, 85>>),
    TicketField("reference", <<
        \* r"(TTF[A-Z0-9]+)"
        Pattern(<<40, 84, 84, 70, 91, 65, 45, 90, 48, 45, 57, 93, 43, 41>>,
                <<Group(<<Lit(<<84, 84, 70>>), MaxRepeat(1, Unbounded, <<In(AZ \cup Digit)>>)>>)>>),
        \* r"([A-Z0-9]{9,12})"
        Pattern(<<40, 91, 65, 45, 90, 48, 45, 57, 93, 123, 57, 44, 49, 50, 125, 41>>,
                <<Group(<<MaxRepeat(9, 12, <<In(AZ \cup Digit)>>)>>)>>)
        >>, <<20, 51, 80, 53>>),
    TicketField("digital_indicators", <<
        \* r"(Add to Google Wallet)"
        Pattern(<<40, 65, 100, 100, 32, 116, 111, 32, 71, 111, 111, 103, 108, 101, 32, 87, 97, 108, 108, 101, 116, 41>>,
                <<Group(<<Lit(<<65, 100, 100, 32, 116, 111, 32, 71, 111, 111, 103, 108, 101, 32, 87, 97, 108, 108, 101, 116>>)>>)>>),
        \* r"(Show Railcard)"
        Pattern(<<40, 83, 104, 111, 119, 32, 82, 97, 105, 108, 99, 97, 114, 100, 41>>,
                <<Group(<<Lit(<<83, 104, 111, 119, 32, 82, 97, 105, 108, 99, 97, 114, 100>>)>>)>>)
        >>, <<20, 25, 80, 35>>)
>>


\* self.configurations, the table _get_default_configurations returns
configurations ==
    [generic         |-> GenericFields,
     gwr             |-> GwrFields,
     trainline_app   |-> get_trainline_configuration,
     generic_digital |-> get_trainline_configuration]

\* "great western"
s_great_western == <<103, 114, 101, 97, 116, 32, 119, 101, 115, 116, 101, 114, 110>>
\* "gwr"
s_gwr == <<103, 119, 114>>
\* "lner"
s_lner == <<108, 110, 101, 114>>
\* "london north eastern"
s_london_north_eastern == <<108, 111, 110, 100, 111, 110, 32, 110, 111, 114, 116, 104, 32, 101, 97, 115, 116, 101, 114, 110>>
\* "transport for london"
s_transport_for_london == <<116, 114, 97, 110, 115, 112, 111, 114, 116, 32, 102, 111, 114, 32, 108, 111, 110, 100, 111, 110>>
\* "tfl"
s_tfl == <<116, 102, 108>>
\* "oyster"
s_oyster == <<111, 121, 115, 116, 101, 114>>
\* "avanti"
s_avanti == <<97, 118, 97, 110, 116, 105>>
\* "west coast"
s_west_coast == <<119, 101, 115, 116, 32, 99, 111, 97, 115, 116>>
\* "trainline"
s_trainline == <<116, 114, 97, 105, 110, 108, 105, 110, 101>>
\* "mobile ticket"
s_mobile_ticket == <<109, 111, 98, 105, 108, 101, 32, 116, 105, 99, 107, 101, 116>>
\* "qr code"
s_qr_code == <<113, 114, 32, 99, 111, 100, 101>>
\* "add to wallet"
s_add_to_wallet == <<97, 100, 100, 32, 116, 111, 32, 119, 97, 108, 108, 101, 116>>
\* "google wallet"
s_google_wallet == <<103, 111, 111, 103, 108, 101, 32, 119, 97, 108, 108, 101, 116>>
\* "show railcard"
s_show_railcard == <<115, 104, 111, 119, 32, 114, 97, 105, 108, 99, 97, 114, 100>>
\* "eticket"
s_eticket == <<101, 116, 105, 99, 107, 101, 116>>

\* the issuer table of _select_configuration, in the dict's order
Indicators == <<
    [config_name |-> "gwr",             indicators |-> <<s_great_western, s_gwr>>],
    [config_name |-> "lner",            indicators |-> <<s_lner, s_london_north_eastern>>],
    [config_name |-> "tfl",             indicators |-> <<s_transport_for_london, s_tfl, s_oyster>>],
    [config_name |-> "avanti",          indicators |-> <<s_avanti, s_west_coast>>],
    [config_name |-> "trainline_app",   indicators |-> <<s_trainline, s_mobile_ticket, s_qr_code>>],
    [config_name |-> "generic_digital", indicators |-> <<>>] >>

\* the phrases that mark a digital ticket
DigitalPhrases == <<s_add_to_wallet, s_google_wallet, s_show_railcard, s_eticket>>

(***************************************************************************)
(* Python dict, int() and slice                                            *)
(***************************************************************************)
EmptyDict == [k \in {} |-> 0]

\* d[key] = value
DictSet(d, key, value) == (key :> value) @@ d

\* int(a / b) for b > 0: truncation toward zero
Trunc(a, b) == IF a >= 0 THEN a \div b ELSE 0 - ((0 - a) \div b)

\* one bound of a slice over an axis of length n: negative bounds count from
\* the end, and both are clipped to 0..n
SliceBound(v, n) ==
    IF v < 0 THEN (IF v + n < 0 THEN 0 ELSE v + n)
    ELSE IF v > n THEN n ELSE v

(***************************************************************************)
(* The image and the external collaborators (codec, line, contour and QR   *)
(* detectors, OCR).  An image is what they report about it:                *)
(*   decodable         cv2.imread returned an array                        *)
(*   height, width     its shape                                           *)
(*   orange_pct        orange pixels of the top strip, percent of the strip*)
(*   texture_measure   np.std(gray - blur)                                 *)
(*   lines             cv2.HoughLinesP on the Canny edges: found, and the  *)
(*                     std of the angles in hundredths of a radian         *)
(*   illumination_var  np.std of the L channel                             *)
(*   has_qr            QRCodeDetector.detectAndDecode                      *)
(*   thresh_lines, thresh_contours  lines and external contours of the     *)
(*                     adaptive-threshold image (paper preprocessing)      *)
(*   contours          external contours of the preprocessed image, by     *)
(*                     preprocessing: npts (vertices of the 2% polygon),   *)
(*                     bounding box x, y, w, h and contour area            *)
(*   blocks            the text on the image: position and characters      *)
(* A preprocessed or cropped image is the rectangle of the original it     *)
(* shows (x, y, w, h) and the preprocessing applied (pre).                 *)
(***************************************************************************)
NoLines == [found |-> FALSE, angle_variation |-> 0]
Lines(angle_variation) == [found |-> TRUE, angle_variation |-> angle_variation]

Contour(npts, x, y, w, h, area) ==
    [npts |-> npts, x |-> x, y |-> y, w |-> w, h |-> h, area |-> area]

Block(x, y, text) == [x |-> x, y |-> y, text |-> text]

View(pre, x, y, w, h) == [pre |-> pre, x |-> x, y |-> y, w |-> w, h |-> h]

NoView == [pre |-> "None"]

\* the text blocks, each followed by a newline
RECURSIVE TextOf(_)
TextOf(blocks) ==
    IF blocks = <<>> THEN <<>>
    ELSE Head(blocks).text \o <<NL>> \o TextOf(Tail(blocks))

\* pytesseract.image_to_string on columns x1..x2-1, rows y1..y2-1 of the
\* original image
image_to_string(image, x1, y1, x2, y2) ==
    TextOf(SelectSeq(image.blocks,
                     LAMBDA b : x1 <= b.x /\ b.x < x2 /\ y1 <= b.y /\ b.y < y2))

\* pytesseract.image_to_string on a whole view
ViewText(image, view) ==
    image_to_string(image, view.x, view.y, view.x + view.w, view.y + view.h)

(***************************************************************************)
(* TicketScanner._determine_ticket_type                                    *)
(***************************************************************************)
OrangeWeight      == 15
TextureWeight     == 10
PerspectiveWeight == 8
ShadowWeight      == 7
DigitalWeight     == 20
PaperThreshold    == 5

Raised(exception) == [raised |-> TRUE, exception |-> exception]

\* the weighted score of a feature vector, and the label it gives
PaperScore(features) ==
    features.orange_bar * OrangeWeight
        + features.texture * TextureWeight
        + features.perspective * PerspectiveWeight
        + features.shadow * ShadowWeight
        - features.digital_elements * DigitalWeight

\* a label that counts a score equal to the threshold as paper
Label_inclusive(paper_score) ==
    IF paper_score >= PaperThreshold THEN "paper" ELSE "digital"

Label(paper_score) == IF paper_score > PaperThreshold THEN "paper" ELSE "digital"

\* a search for the phrases in the text as printed
HasDigitalPhrase_exact(text) ==
    \E k \in 1..Len(DigitalPhrases) : Contains(DigitalPhrases[k], text)

\* any(pattern in text.lower() for pattern in [...])
HasDigitalPhrase(text) ==
    \E k \in 1..Len(DigitalPhrases) : Contains(DigitalPhrases[k], Lower(text))

Features(image) ==
    [orange_bar  |-> IF image.orange_pct > 20 THEN 1 ELSE 0,
     texture     |-> IF image.texture_measure > 10 THEN 1 ELSE 0,
     perspective |-> IF image.lines.found /\ image.lines.angle_variation > 5
                     THEN 1 ELSE 0,
     shadow      |-> IF image.illumination_var > 15 THEN 1 ELSE 0,
     digital_elements |->
        (IF image.has_qr THEN 1 ELSE 0)
        + (IF HasDigitalPhrase(image_to_string(image, 0, 0, image.width, image.height))
           THEN 2 ELSE 0)]

\* The top strip rgb_image[:height // 10] is empty for height < 10 and
\* cv2.cvtColor rejects an empty array.  With debug_roi set and no line found,
\* the drawing loop iterates over lines, which is None.
DetermineTicketType(image, debug_roi) ==
    IF image.height \div 10 = 0 THEN Raised("cv2.error")
    ELSE IF ~image.lines.found /\ debug_roi THEN Raised("TypeError")
    ELSE [raised      |-> FALSE,
          features    |-> Features(image),
          paper_score |-> PaperScore(Features(image)),
          label       |-> Label(PaperScore(Features(image)))]

(***************************************************************************)
(* TicketScanner._preprocess_image                                         *)
(***************************************************************************)
\* max(contours, key=cv2.contourArea): the first contour of the largest area
Largest(contours) ==
    contours[CHOOSE i \in 1..Len(contours) :
                /\ \A j \in 1..Len(contours) : contours[j].area <= contours[i].area
                /\ \A j \in 1..(i - 1) : contours[j].area < contours[i].area]

\* The deskewed image is the largest contour's rectangle; minAreaRect is taken
\* axis-aligned.
PreprocessImage(image, type) ==
    IF type = "paper"
    THEN IF /\ image.thresh_lines.found
            /\ image.thresh_lines.angle_variation > 10
            /\ image.thresh_contours # <<>>
         THEN LET c == Largest(image.thresh_contours)
              IN  View("warped", c.x, c.y, c.w, c.h)
         ELSE View("binarized", 0, 0, image.width, image.height)
    ELSE View("enhanced", 0, 0, image.width, image.height)

(***************************************************************************)
(* TicketScanner._crop_ticket                                              *)
(***************************************************************************)
\* sorted(contours, key=cv2.contourArea, reverse=True): stable, largest first
RECURSIVE SortedByArea(_)
SortedByArea(contours) ==
    IF contours = <<>> THEN <<>>
    ELSE LET c == Largest(contours)
             i == CHOOSE k \in 1..Len(contours) :
                    /\ contours[k] = c
                    /\ \A j \in 1..(k - 1) : contours[j] # c
         IN  <<c>> \o SortedByArea(SubSeq(contours, 1, i - 1)
                                    \o SubSeq(contours, i + 1, Len(contours)))

\* 1.8 < w / h < 2.5 for paper, 1.0 < w / h < 2.5 otherwise
ValidRatio(c, type) ==
    IF type = "paper"
    THEN 18 * c.h < 10 * c.w /\ 10 * c.w < 25 * c.h
    ELSE 10 * c.h < 10 * c.w /\ 10 * c.w < 25 * c.h

\* the view cropped to a contour's bounding box
CropTo(view, c) == View(view.pre, view.x + c.x, view.y + c.y, c.w, c.h)

\* a crop that also accepts a box of exactly 20% (30%) of the image
CropTicket_at_least(image, view, type) ==
    LET contours == SortedByArea(image.contours[view.pre])
        suitable == SelectSeq(Prefix(contours, 5),
                        LAMBDA c : /\ c.npts = 4
                                   /\ ValidRatio(c, type)
                                   /\ 10 * c.w * c.h >= 2 * view.h * view.w)
    IN  IF contours = <<>> THEN NoView
        ELSE IF suitable # <<>> THEN CropTo(view, suitable[1])
        ELSE IF 10 * contours[1].w * contours[1].h >= 3 * view.h * view.w
             THEN CropTo(view, contours[1])
             ELSE NoView

\* None is NoView
CropTicket(image, view, type) ==
    LET contours == SortedByArea(image.contours[view.pre])
        suitable == SelectSeq(Prefix(contours, 5),
                        LAMBDA c : /\ c.npts = 4
                                   /\ ValidRatio(c, type)
                                   /\ 10 * c.w * c.h > 2 * view.h * view.w)
    IN  IF contours = <<>> THEN NoView
        ELSE IF suitable # <<>> THEN CropTo(view, suitable[1])
        ELSE IF 10 * contours[1].w * contours[1].h > 3 * view.h * view.w
             THEN CropTo(view, contours[1])
             ELSE NoView

(***************************************************************************)
(* TicketScanner._select_configuration                                     *)
(***************************************************************************)
AnyIndicator(indicators, text) ==
    \E k \in 1..Len(indicators) : Contains(indicators[k], text)

\* a walk that lets a later entry of the table replace an earlier one
RECURSIVE FirstIndicated_last(_, _)
FirstIndicated_last(table, text) ==
    IF table = <<>> THEN "generic_digital"
    ELSE LET later == FirstIndicated_last(Tail(table), text)
         IN  IF later # "generic_digital" THEN later
             ELSE IF AnyIndicator(Head(table).indicators, text)
                  THEN Head(table).config_name
                  ELSE "generic_digital"

RECURSIVE FirstIndicated(_, _)
FirstIndicated(table, text) ==
    IF table = <<>> THEN "generic_digital"
    ELSE IF AnyIndicator(Head(table).indicators, text) THEN Head(table).config_name
    ELSE FirstIndicated(Tail(table), text)

\* a selection that compares the text without lower-casing it
SelectConfiguration_exact(text) == FirstIndicated(Indicators, text)

SelectConfiguration(text) == FirstIndicated(Indicators, Lower(text))

(***************************************************************************)
(* TicketScanner._extract_ticket_details                                   *)
(***************************************************************************)
HighConfidence == 10
LowConfidence  == 6

\* pixel bounds with the two dimensions exchanged
RoiBounds_transposed(region, width, height) ==
    [roi_x1 |-> Trunc(region[1] * height, 100),
     roi_y1 |-> Trunc(region[2] * width, 100),
     roi_x2 |-> Trunc(region[3] * height, 100),
     roi_y2 |-> Trunc(region[4] * width, 100)]

\* roi_x1, roi_y1, roi_x2, roi_y2 = int(ratio * dimension).  With the ratio in
\* hundredths the quotient is exact; the float product truncates to the same
\* integer for the image sizes used here (sides up to 14, 120 and 240).
RoiBounds(region, width, height) ==
    [roi_x1 |-> Trunc(region[1] * width, 100),
     roi_y1 |-> Trunc(region[2] * height, 100),
     roi_x2 |-> Trunc(region[3] * width, 100),
     roi_y2 |-> Trunc(region[4] * height, 100)]

\* the columns x1..x2-1 and rows y1..y2-1 that image[roi_y1:roi_y2,
\* roi_x1:roi_x2] selects
RoiSlice(roi, width, height) ==
    [x1 |-> SliceBound(roi.roi_x1, width), x2 |-> SliceBound(roi.roi_x2, width),
     y1 |-> SliceBound(roi.roi_y1, height), y2 |-> SliceBound(roi.roi_y2, height)]

\* roi.size == 0
RoiEmpty(slice) == slice.x1 >= slice.x2 \/ slice.y1 >= slice.y2

\* the text the OCR reads for a field of the working image
FieldText(image, view, region) ==
    IF region = <<>> THEN ViewText(image, view)
    ELSE LET slice == RoiSlice(RoiBounds(region, view.w, view.h), view.w, view.h)
         IN  image_to_string(image, view.x + slice.x1, view.y + slice.y1,
                                    view.x + slice.x2, view.y + slice.y2)

\* the last pattern that re.search finds in the text
RECURSIVE FirstMatch_last(_, _)
FirstMatch_last(patterns, text) ==
    IF patterns = <<>> THEN NoMatch
    ELSE LET later == FirstMatch_last(Tail(patterns), text)
         IN  IF later.found THEN later ELSE Search(Head(patterns).re, text)

\* the first pattern that re.search finds in the text
RECURSIVE FirstMatch(_, _)
FirstMatch(patterns, text) ==
    IF patterns = <<>> THEN NoMatch
    ELSE LET match == Search(Head(patterns).re, text)
         IN  IF match.found THEN match ELSE FirstMatch(Tail(patterns), text)

\* the characters the first re.sub deletes: ( ) [ ] { } . + * ? | ^ $
SpecialChars == {40, 41, 91, 93, 123, 125, 46, 43, 42, 63, 124, 94, 36}

\* re.sub(r'[\(\)\[\]\{\}\.\+\*\?\|\^\$]', '', pattern), then
\* re.sub(r'\\d\+', '', .), then .replace('\\s+', ' ').strip()
CleanPattern(src) ==
    Strip(Replace(Replace(RemoveChars(src, SpecialChars), <<92, 100, 43>>, <<>>),
                  <<92, 115, 43>>, <<32>>))

\* a fallback that also takes what follows an occurrence at the end of the text
RECURSIVE FuzzyMatch_unguarded(_, _)
FuzzyMatch_unguarded(patterns, text) ==
    IF patterns = <<>> THEN NoMatch
    ELSE LET clean_pattern == CleanPattern(Head(patterns).src)
             pos == Find(clean_pattern, text) + Len(clean_pattern)
         IN  IF clean_pattern # <<>> /\ Contains(clean_pattern, text)
             THEN [found |-> TRUE,
                   possible_value |-> Strip(FirstLine(Slice(text, pos, pos + 30)))]
             ELSE FuzzyMatch_unguarded(Tail(patterns), text)

\* the fallback: the text after the first cleaned pattern found in the text,
\* for the first pattern whose occurrence does not end the text
RECURSIVE FuzzyMatch(_, _)
FuzzyMatch(patterns, text) ==
    IF patterns = <<>> THEN NoMatch
    ELSE LET clean_pattern == CleanPattern(Head(patterns).src)
             pos == Find(clean_pattern, text) + Len(clean_pattern)
         IN  IF clean_pattern # <<>> /\ Contains(clean_pattern, text) /\ pos < Len(text)
             THEN [found |-> TRUE,
                   possible_value |-> Strip(FirstLine(Slice(text, pos, pos + 30)))]
             ELSE FuzzyMatch(Tail(patterns), text)

\* a field for which the fallback is tried first and replaces a regex match
StoreField_fuzzy_first(field, text, acc) ==
    LET match == FirstMatch(field.patterns, text)
        fuzzy == FuzzyMatch(field.patterns, text)
    IN  IF text # <<>> /\ fuzzy.found
        THEN [details |-> DictSet(acc.details, field.name, fuzzy.possible_value),
              confidence_scores |->
                  DictSet(acc.confidence_scores, field.name, LowConfidence)]
        ELSE IF match.found
        THEN [details |-> DictSet(acc.details, field.name, Strip(match.group0)),
              confidence_scores |->
                  DictSet(acc.confidence_scores, field.name, HighConfidence)]
        ELSE acc

\* the two pattern loops on the text read for a field; acc is the details
\* dict and self.confidence_scores
StoreField(field, text, acc) ==
    LET stored(match, fuzzy) ==
            IF match.found
            THEN [details |-> DictSet(acc.details, field.name, Strip(match.group0)),
                  confidence_scores |->
                      DictSet(acc.confidence_scores, field.name, HighConfidence)]
            ELSE IF field.name \notin DOMAIN acc.details /\ text # <<>> /\ fuzzy.found
            THEN [details |-> DictSet(acc.details, field.name, fuzzy.possible_value),
                  confidence_scores |->
                      DictSet(acc.confidence_scores, field.name, LowConfidence)]
            ELSE acc
    IN  stored(FirstMatch(field.patterns, text), FuzzyMatch(field.patterns, text))

\* one iteration of the loop over the fields: a field with an empty ROI is
\* skipped
ExtractField(field, image, view, acc) ==
    IF /\ field.region # <<>>
       /\ RoiEmpty(RoiSlice(RoiBounds(field.region, view.w, view.h), view.w, view.h))
    THEN acc
    ELSE StoreField(field, FieldText(image, view, field.region), acc)

RECURSIVE ExtractFields(_, _, _, _)
ExtractFields(fields, image, view, acc) ==
    IF fields = <<>> THEN acc
    ELSE LET \* an iteration only adds entries; each is settled before the next
             rest(next) ==
                 IF DOMAIN acc.details \subseteq DOMAIN next.details
                 THEN ExtractFields(Tail(fields), image, view, next)
                 ELSE acc
         IN  rest(ExtractField(Head(fields), image, view, acc))

\* an unknown configuration name falls back to "generic"
ConfigFor(config_name) ==
    IF config_name \in DOMAIN configurations
    THEN configurations[config_name]
    ELSE configurations["generic"]

ExtractTicketDetails(image, view, config_name, confidence_scores) ==
    ExtractFields(ConfigFor(config_name), image, view,
                  [details |-> EmptyDict, confidence_scores |-> confidence_scores])

(***************************************************************************)
(* TicketScanner._generate_ticket_reference                                *)
(***************************************************************************)
ReferenceConfidence == 5

\* origin_code, else the first three characters of origin_station upper-cased,
\* else nothing; likewise for the destination
StationPart(data, code, station) ==
    IF code \in DOMAIN data THEN <<data[code]>>
    ELSE IF station \in DOMAIN data THEN <<Upper(Prefix(data[station], 3))>>
    ELSE <<>>

\* the timestamp modulo a million, printed without its leading zeros
TimePart_numeric(now) == Str(now % 1000000)

\* str(int(time.time()))[-6:]
TimePart(now) == Suffix(Str(now), 6)

ReferenceParts(data, now) ==
    StationPart(data, "origin_code", "origin_station")
        \o StationPart(data, "destination_code", "destination_station")
        \o <<TimePart(now)>>

GenerateTicketReference(data, confidence_scores, now) ==
    [extracted_data |->
        DictSet(DictSet(data, "ticket_reference", Join(<<45>>, ReferenceParts(data, now))),
                "is_reference_generated", TRUE),
     confidence_scores |->
        DictSet(confidence_scores, "ticket_reference", ReferenceConfidence)]

(***************************************************************************)
(* The images scanned                                                      *)
(***************************************************************************)
\* a file that is not an image
corrupt ==
    [name |-> "corrupt", decodable |-> FALSE, width |-> 0, height |-> 0,
     orange_pct |-> 0, texture_measure |-> 3, lines |-> NoLines,
     illumination_var |-> 4, has_qr |-> FALSE,
     thresh_lines |-> NoLines, thresh_contours |-> <<>>,
     contours |-> [binarized |-> <<>>,
                   enhanced  |-> <<>>,
                   warped    |-> <<>>],
     blocks |-> <<>>]

\* an empty screen: no line, no contour, no code, no text
blank ==
    [name |-> "blank", decodable |-> TRUE, width |-> 240, height |-> 120,
     orange_pct |-> 0, texture_measure |-> 3, lines |-> NoLines,
     illumination_var |-> 4, has_qr |-> FALSE,
     thresh_lines |-> NoLines, thresh_contours |-> <<>>,
     contours |-> [binarized |-> <<>>,
                   enhanced  |-> <<>>,
                   warped    |-> <<>>],
     blocks |-> <<>>]

\* fewer than ten rows: the top strip is empty
tiny ==
    [name |-> "tiny", decodable |-> TRUE, width |-> 30, height |-> 8,
     orange_pct |-> 0, texture_measure |-> 3, lines |-> NoLines,
     illumination_var |-> 4, has_qr |-> FALSE,
     thresh_lines |-> NoLines, thresh_contours |-> <<>>,
     contours |-> [binarized |-> <<>>,
                   enhanced  |-> <<>>,
                   warped    |-> <<>>],
     blocks |-> <<>>]

\* a Trainline e-ticket screenshot with station codes
eticket ==
    [name |-> "eticket", decodable |-> TRUE, width |-> 240, height |-> 240,
     orange_pct |-> 0, texture_measure |-> 3, lines |-> Lines(2),
     illumination_var |-> 4, has_qr |-> TRUE,
     thresh_lines |-> NoLines, thresh_contours |-> <<>>,
     contours |-> [binarized |-> <<>>,
                   enhanced  |-> <<Contour(4, 0, 0, 240, 240, 54000)>>,
                   warped    |-> <<>>],
     blocks |-> <<
        \* "Trainline"
        Block(36, 30, <<84, 114, 97, 105, 110, 108, 105, 110, 101>>),
        \* "eTicket"
        Block(120, 12, <<101, 84, 105, 99, 107, 101, 116>>),
        \* "Liverpool"
        Block(12, 118, <<76, 105, 118, 101, 114, 112, 111, 111, 108>>),
        \* "LVP"
        Block(12, 132, <<76, 86, 80>>),
        \* "Grantham"
        Block(132, 118, <<71, 114, 97, 110, 116, 104, 97, 109>>),
        \* "GRA"
        Block(132, 132, <<71, 82, 65>>),
        \* "08 Feb 2025"
        Block(54, 140, <<48, 56, 32, 70, 101, 98, 32, 50, 48, 50, 53>>),
        \* "Off-Peak Return"
        Block(12, 156, <<79, 102, 102, 45, 80, 101, 97, 107, 32, 82, 101, 116, 117, 114, 110>>),
        \* "Any Permitted"
        Block(144, 156, <<65, 110, 121, 32, 80, 101, 114, 109, 105, 116, 116, 101, 100>>),
        \* "ADULT"
        Block(18, 194, <<65, 68, 85, 76, 84>>),
        \* "Add to Google Wallet"
        Block(60, 66, <<65, 100, 100, 32, 116, 111, 32, 71, 111, 111, 103, 108, 101, 32, 87, 97, 108, 108, 101, 116>>) >>]

\* an e-ticket with station names but no codes, a garbled direction line and a printed reference
eticket_names ==
    [name |-> "eticket_names", decodable |-> TRUE, width |-> 240, height |-> 240,
     orange_pct |-> 0, texture_measure |-> 3, lines |-> Lines(3),
     illumination_var |-> 4, has_qr |-> TRUE,
     thresh_lines |-> NoLines, thresh_contours |-> <<>>,
     contours |-> [binarized |-> <<>>,
                   enhanced  |-> <<>>,
                   warped    |-> <<>>],
     blocks |-> <<
        \* "Trainline"
        Block(36, 30, <<84, 114, 97, 105, 110, 108, 105, 110, 101>>),
        \* "Reading"
        Block(12, 118, <<82, 101, 97, 100, 105, 110, 103>>),
        \* "Oxford"
        Block(132, 118, <<79, 120, 102, 111, 114, 100>>),
        \* "Ret:\sA-Z3\s-\sA-Z3 LHR"
        Block(132, 90, <<82, 101, 116, 58, 92, 115, 65, 45, 90, 51, 92, 115, 45, 92, 115, 65, 45, 90, 51, 32, 76, 72, 82>>),
        \* "TTF12345678"
        Block(114, 124, <<84, 84, 70, 49, 50, 51, 52, 53, 54, 55, 56>>) >>]

\* an e-ticket that names no issuer, with a printed reference
eticket_plain ==
    [name |-> "eticket_plain", decodable |-> TRUE, width |-> 240, height |-> 240,
     orange_pct |-> 0, texture_measure |-> 3, lines |-> Lines(3),
     illumination_var |-> 4, has_qr |-> TRUE,
     thresh_lines |-> NoLines, thresh_contours |-> <<>>,
     contours |-> [binarized |-> <<>>,
                   enhanced  |-> <<>>,
                   warped    |-> <<>>],
     blocks |-> <<
        \* "Reading"
        Block(12, 118, <<82, 101, 97, 100, 105, 110, 103>>),
        \* "Oxford"
        Block(132, 118, <<79, 120, 102, 111, 114, 100>>),
        \* "TTF12345678"
        Block(114, 124, <<84, 84, 70, 49, 50, 51, 52, 53, 54, 55, 56>>) >>]

\* a photographed GWR paper ticket, deskewed and cropped; it prints its reference
gwr_paper ==
    [name |-> "gwr_paper", decodable |-> TRUE, width |-> 288, height |-> 180,
     orange_pct |-> 35, texture_measure |-> 14, lines |-> Lines(8),
     illumination_var |-> 18, has_qr |-> FALSE,
     thresh_lines |-> Lines(12), thresh_contours |-> <<Contour(4, 24, 30, 240, 120, 28080), Contour(4, 6, 6, 18, 18, 288)>>,
     contours |-> [binarized |-> <<>>,
                   enhanced  |-> <<>>,
                   warped    |-> <<Contour(4, 0, 0, 240, 120, 28080)>>],
     blocks |-> <<
        \* "GWR"
        Block(36, 36, <<71, 87, 82>>),
        \* "FROM Reading"
        Block(42, 56, <<70, 82, 79, 77, 32, 82, 101, 97, 100, 105, 110, 103>>),
        \* "TO Oxford"
        Block(162, 56, <<84, 79, 32, 79, 120, 102, 111, 114, 100>>),
        \* "VALID ON 08 Feb 2025"
        Block(54, 68, <<86, 65, 76, 73, 68, 32, 79, 78, 32, 48, 56, 32, 70, 101, 98, 32, 50, 48, 50, 53>>),
        \* "STANDARD CLASS"
        Block(54, 80, <<83, 84, 65, 78, 68, 65, 82, 68, 32, 67, 76, 65, 83, 83>>),
        \* "£12.50"
        Block(198, 116, <<163, 49, 50, 46, 53, 48>>),
        \* "REF: AB-123456"
        Block(126, 128, <<82, 69, 70, 58, 32, 65, 66, 45, 49, 50, 51, 52, 53, 54>>) >>]

\* a Transport for London ticket on a screen
tfl_photo ==
    [name |-> "tfl_photo", decodable |-> TRUE, width |-> 240, height |-> 240,
     orange_pct |-> 0, texture_measure |-> 12, lines |-> Lines(4),
     illumination_var |-> 4, has_qr |-> FALSE,
     thresh_lines |-> NoLines, thresh_contours |-> <<>>,
     contours |-> [binarized |-> <<>>,
                   enhanced  |-> <<Contour(6, 12, 12, 60, 60, 3240)>>,
                   warped    |-> <<>>],
     blocks |-> <<
        \* "Transport for London"
        Block(18, 12, <<84, 114, 97, 110, 115, 112, 111, 114, 116, 32, 102, 111, 114, 32, 76, 111, 110, 100, 111, 110>>),
        \* "From: Reading to Oxford"
        Block(18, 54, <<70, 114, 111, 109, 58, 32, 82, 101, 97, 100, 105, 110, 103, 32, 116, 111, 32, 79, 120, 102, 111, 114, 100>>),
        \* "To: Oxford"
        Block(138, 54, <<84, 111, 58, 32, 79, 120, 102, 111, 114, 100>>),
        \* "Date: 08/02/2025"
        Block(30, 102, <<68, 97, 116, 101, 58, 32, 48, 56, 47, 48, 50, 47, 50, 48, 50, 53>>) >>]

Images == {corrupt, blank, tiny, eticket, eticket_names, eticket_plain, gwr_paper, tfl_photo}

(***************************************************************************)
(* TicketScanner.__init__ and TicketScanner.scan                           *)
(***************************************************************************)
\* the fields of a new instance; image_basename is set by the first scan
NewScanner(debug) ==
    [ticket_type        |-> "None",
     extracted_data     |-> EmptyDict,
     confidence_scores  |-> EmptyDict,
     preprocessed_image |-> NoView,
     image_basename     |-> "None",
     debug_roi          |-> debug]

\* a load failure that also clears the instance
LoadFailure_clearing(self) ==
    [self |-> NewScanner(self.debug_roi), raised |-> TRUE, exception |-> "ValueError"]

\* cv2.imread returned None: ValueError before anything is assigned
LoadFailure(self) ==
    [self |-> self, raised |-> TRUE, exception |-> "ValueError"]

\* the working image: the crop when there is one, else the preprocessed image
WorkingImage(image, preprocessed, type) ==
    LET cropped_image == CropTicket(image, preprocessed, type)
    IN  IF cropped_image.pre # "None" THEN cropped_image ELSE preprocessed

\* a reference generated only when the configuration's 'reference' field
\* found none either
WithReference_unless_reference(extracted, now) ==
    IF {"ticket_reference", "reference"} \cap DOMAIN extracted.details = {}
    THEN GenerateTicketReference(extracted.details, extracted.confidence_scores, now)
    ELSE [extracted_data |-> extracted.details,
          confidence_scores |-> extracted.confidence_scores]

\* the data and confidence after extraction, with a reference generated when
\* none was extracted
WithReference(extracted, now) ==
    IF "ticket_reference" \notin DOMAIN extracted.details
    THEN GenerateTicketReference(extracted.details, extracted.confidence_scores, now)
    ELSE [extracted_data |-> extracted.details,
          confidence_scores |-> extracted.confidence_scores]

\* scan(image_path) at clock reading now: the instance afterwards, and the
\* result returned or the exception raised
scan(self, image, now) ==
    IF ~image.decodable THEN LoadFailure(self)
    ELSE
    LET named == [self EXCEPT !.image_basename = image.name]
        type  == DetermineTicketType(image, self.debug_roi)
    IN  IF type.raised
        THEN [self |-> named, raised |-> TRUE, exception |-> type.exception]
        ELSE
        LET preprocessed  == PreprocessImage(image, type.label)
            working_image == WorkingImage(image, preprocessed, type.label)
            config_name   == SelectConfiguration(ViewText(image, working_image))
            extracted     == ExtractTicketDetails(image, working_image, config_name,
                                                  self.confidence_scores)
            \* the assignments to the instance and the dictionary returned
            returned(final) ==
                [self |-> [named EXCEPT !.ticket_type = type.label,
                                        !.preprocessed_image = preprocessed,
                                        !.extracted_data = final.extracted_data,
                                        !.confidence_scores = final.confidence_scores],
                 raised |-> FALSE,
                 result |-> [ticket_type        |-> type.label,
                             configuration_used |-> config_name,
                             data               |-> final.extracted_data,
                             confidence         |-> final.confidence_scores]]
        IN  returned(WithReference(extracted, now))

\* what the command-line entry point prints for an outcome of scan
Printed(outcome) ==
    IF outcome.raised THEN [error |-> outcome.exception] ELSE outcome.result

(***************************************************************************)
(* State: a scanner instance and its caller, and the inputs and results of *)
(* the stages examined on their own                                        *)
(***************************************************************************)
VARIABLES
    ticket_type,          \* self.ticket_type
    extracted_data,       \* self.extracted_data
    confidence_scores,    \* self.confidence_scores
    preprocessed_image,   \* self.preprocessed_image
    image_basename,       \* self.image_basename
    debug_roi,            \* self.debug_roi
    output,               \* what the caller got from the last scan
    call,                 \* the last scan's image and clock reading
    scans,                \* number of scans made
    photo,                \* the image given to _determine_ticket_type
    classified,           \* its outcome, by debug_roi
    ocr_text,             \* the text given to _select_configuration
    selected,             \* the configuration name it returned
    roi_region,           \* a field's region (hundredths)
    roi_shape,            \* the working image's width and height
    roi,                  \* the pixel bounds computed for the region
    threads,              \* the scans in flight on one instance, by thread
    preprocessed_from,    \* the image self.preprocessed_image was made from
    field_case,           \* a field, the text read in its region, earlier scores
    field_result,         \* details and confidence_scores after the field
    crop_case,            \* an image's contours and the ticket type
    cropped               \* what _crop_ticket returned for them

scanner_vars == <<ticket_type, extracted_data, confidence_scores, preprocessed_image,
                  image_basename, debug_roi, output, call, scans>>
classifier_vars == <<photo, classified>>
selector_vars == <<ocr_text, selected>>
roi_vars == <<roi_region, roi_shape, roi>>
thread_vars == <<threads, preprocessed_from>>
field_vars == <<field_case, field_result>>
crop_vars == <<crop_case, cropped>>

vars == <<scanner_vars, classifier_vars, selector_vars, roi_vars, thread_vars,
          field_vars, crop_vars>>

NoCall == [image |-> "None", now |-> 0]
NoRoi == [computed |-> FALSE]
NoResult == [done |-> FALSE]

ScannerInit ==
    /\ ticket_type = NewScanner(debug_roi).ticket_type
    /\ extracted_data = NewScanner(debug_roi).extracted_data
    /\ confidence_scores = NewScanner(debug_roi).confidence_scores
    /\ preprocessed_image = NewScanner(debug_roi).preprocessed_image
    /\ image_basename = NewScanner(debug_roi).image_basename
    /\ output = EmptyDict
    /\ call = NoCall
    /\ scans = 0

ClassifierIdle == photo = blank /\ classified = EmptyDict
SelectorIdle == ocr_text = <<>> /\ selected = "None"
RoiIdle == roi_region = <<>> /\ roi_shape = [width |-> 1, height |-> 1] /\ roi = NoRoi
ThreadsIdle == threads = <<>> /\ preprocessed_from = "None"
FieldIdle == field_case = EmptyDict /\ field_result = NoResult
CropIdle == crop_case = EmptyDict /\ cropped = NoResult

(***************************************************************************)
(* A scanner instance used for several scans                               *)
(***************************************************************************)
MaxScans == 2

\* readings of time.time()
Timestamps == {1762170656, 1762000042}

Self ==
    [ticket_type        |-> ticket_type,
     extracted_data     |-> extracted_data,
     confidence_scores  |-> confidence_scores,
     preprocessed_image |-> preprocessed_image,
     image_basename     |-> image_basename,
     debug_roi          |-> debug_roi]

Init ==
    /\ debug_roi \in BOOLEAN
    /\ ScannerInit
    /\ ClassifierIdle /\ SelectorIdle /\ RoiIdle
    /\ ThreadsIdle /\ FieldIdle /\ CropIdle

Scan(image, now) ==
    /\ scans < MaxScans
    /\ LET outcome == scan(Self, image, now)
       IN  /\ ticket_type' = outcome.self.ticket_type
           /\ extracted_data' = outcome.self.extracted_data
           /\ confidence_scores' = outcome.self.confidence_scores
           /\ preprocessed_image' = outcome.self.preprocessed_image
           /\ image_basename' = outcome.self.image_basename
           /\ output' = Printed(outcome)
    /\ call' = [image |-> image.name, now |-> now]
    /\ scans' = scans + 1
    /\ UNCHANGED <<debug_roi, classifier_vars, selector_vars, roi_vars,
                   thread_vars, field_vars, crop_vars>>

Next == \E image \in Images, now \in Timestamps : Scan(image, now)

Spec == Init /\ [][Next]_vars

(***************************************************************************)
(* _determine_ticket_type on its own: every combination of measurements    *)
(* on either side of each threshold, with and without debug_roi            *)
(***************************************************************************)
\* "Add to Google Wallet"
WalletBlock == Block(2, 12, <<65, 100, 100, 32, 116, 111, 32, 71, 111, 111, 103, 108, 101, 32, 87, 97, 108, 108, 101, 116>>)

\* "Standard Class"
ClassBlock == Block(2, 12, <<83, 116, 97, 110, 100, 97, 114, 100, 32, 67, 108, 97, 115, 115>>)

\* "ADD TO WALLET"
AddToWalletBlock == Block(2, 12, <<65, 68, 68, 32, 84, 79, 32, 87, 65, 76, 76, 69, 84>>)

\* "Show Railcard"
RailcardBlock == Block(2, 14, <<83, 104, 111, 119, 32, 82, 97, 105, 108, 99, 97, 114, 100>>)

\* "Your eTicket"
EticketBlock == Block(2, 16, <<89, 111, 117, 114, 32, 101, 84, 105, 99, 107, 101, 116>>)

Photos ==
    { [blank EXCEPT !.name = "photo",
                    !.orange_pct = o, !.texture_measure = t, !.lines = l,
                    !.illumination_var = s, !.has_qr = q, !.blocks = b] :
        o \in {20, 21}, t \in {10, 11}, l \in {NoLines, Lines(5), Lines(6)},
        s \in {15, 16}, q \in BOOLEAN,
        b \in {<<>>, <<ClassBlock>>, <<WalletBlock>>, <<AddToWalletBlock>>,
               <<ClassBlock, RailcardBlock>>, <<EticketBlock>>} }

InitClassify ==
    /\ debug_roi = FALSE
    /\ ScannerInit
    /\ photo \in Photos
    /\ classified = EmptyDict
    /\ SelectorIdle /\ RoiIdle
    /\ ThreadsIdle /\ FieldIdle /\ CropIdle

Classify(debug) ==
    /\ debug \notin DOMAIN classified
    /\ classified' = DictSet(classified, debug, DetermineTicketType(photo, debug))
    /\ UNCHANGED <<photo, scanner_vars, selector_vars, roi_vars,
                   thread_vars, field_vars, crop_vars>>

NextClassify == \E debug \in BOOLEAN : Classify(debug)

SpecClassify == InitClassify /\ [][NextClassify]_vars

(***************************************************************************)
(* _select_configuration on its own: texts made of an issuer's name in     *)
(* some letter case, between other words                                   *)
(***************************************************************************)
\* "Ticket "
w_ticket == <<84, 105, 99, 107, 101, 116, 32>>

\* "GWR "
w_gwr == <<71, 87, 82, 32>>

\* "Great Western Railway\n"
w_great_western == <<71, 114, 101, 97, 116, 32, 87, 101, 115, 116, 101, 114, 110, 32, 82, 97, 105, 108, 119, 97, 121, 10>>

\* "lner "
w_lner == <<108, 110, 101, 114, 32>>

\* "London North Eastern\n"
w_london_north_eastern == <<76, 111, 110, 100, 111, 110, 32, 78, 111, 114, 116, 104, 32, 69, 97, 115, 116, 101, 114, 110, 10>>

\* "Oyster "
w_oyster == <<79, 121, 115, 116, 101, 114, 32>>

\* "Transport for London"
w_tfl_title == <<84, 114, 97, 110, 115, 112, 111, 114, 116, 32, 102, 111, 114, 32, 76, 111, 110, 100, 111, 110>>

\* "TRANSPORT FOR LONDON"
w_tfl_upper == <<84, 82, 65, 78, 83, 80, 79, 82, 84, 32, 70, 79, 82, 32, 76, 79, 78, 68, 79, 78>>

\* "transport for london"
w_tfl_lower == <<116, 114, 97, 110, 115, 112, 111, 114, 116, 32, 102, 111, 114, 32, 108, 111, 110, 100, 111, 110>>

\* "Transport for\nLondon"
w_tfl_broken == <<84, 114, 97, 110, 115, 112, 111, 114, 116, 32, 102, 111, 114, 10, 76, 111, 110, 100, 111, 110>>

\* "Single"
w_single == <<83, 105, 110, 103, 108, 101>>

\* " Adult\n"
w_adult == <<32, 65, 100, 117, 108, 116, 10>>

\* " Avanti West Coast\n"
w_avanti == <<32, 65, 118, 97, 110, 116, 105, 32, 87, 101, 115, 116, 32, 67, 111, 97, 115, 116, 10>>

\* " via Trainline\n"
w_trainline == <<32, 118, 105, 97, 32, 84, 114, 97, 105, 110, 108, 105, 110, 101, 10>>

\* " gwr.com\n"
w_gwr_after == <<32, 103, 119, 114, 46, 99, 111, 109, 10>>

Before == {<<>>, w_ticket, w_gwr, w_great_western, w_lner, w_london_north_eastern, w_oyster}
Middle == {<<>>, w_tfl_title, w_tfl_upper, w_tfl_lower, w_tfl_broken, w_single}
After == {<<>>, w_adult, w_avanti, w_trainline, w_gwr_after}

Texts == {b \o m \o a : b \in Before, m \in Middle, a \in After}

InitSelect ==
    /\ debug_roi = FALSE
    /\ ScannerInit
    /\ ocr_text \in Texts
    /\ selected = "None"
    /\ ClassifierIdle /\ RoiIdle
    /\ ThreadsIdle /\ FieldIdle /\ CropIdle

Select ==
    /\ selected = "None"
    /\ selected' = SelectConfiguration(ocr_text)
    /\ UNCHANGED <<ocr_text, scanner_vars, classifier_vars, roi_vars,
                   thread_vars, field_vars, crop_vars>>

NextSelect == Select

SpecSelect == InitSelect /\ [][NextSelect]_vars

(***************************************************************************)
(* The pixel bounds of a field's region on its own: the regions of the     *)
(* configuration tables and a grid of ratios, on every small image size    *)
(***************************************************************************)
MaxSide == 12

\* the regions of the configured fields
RECURSIVE RegionsOf(_)
RegionsOf(fields) ==
    IF fields = <<>> THEN {} ELSE {Head(fields).region} \cup RegionsOf(Tail(fields))

ConfiguredRegions ==
    UNION {RegionsOf(configurations[name]) : name \in DOMAIN configurations}

Ratios == {0, 28, 29, 50, 100}

\* 0 <= x1 < x2 <= 1 and 0 <= y1 < y2 <= 1
GridRegions ==
    {r \in Ratios \X Ratios \X Ratios \X Ratios : r[1] < r[3] /\ r[2] < r[4]}

ValidRegions == ConfiguredRegions \cup GridRegions

InitRoi ==
    /\ debug_roi = FALSE
    /\ ScannerInit
    /\ roi_region \in ValidRegions
    /\ roi_shape \in [width : 1..MaxSide, height : 1..MaxSide]
    /\ roi = NoRoi
    /\ ClassifierIdle /\ SelectorIdle
    /\ ThreadsIdle /\ FieldIdle /\ CropIdle

\* lines 500-512 of the loop over the fields
ComputeRoi ==
    /\ ~roi.computed
    /\ LET bounds == RoiBounds(roi_region, roi_shape.width, roi_shape.height)
       IN  roi' = [computed |-> TRUE,
                   bounds   |-> bounds,
                   skipped  |-> RoiEmpty(RoiSlice(bounds, roi_shape.width, roi_shape.height))]
    /\ UNCHANGED <<roi_region, roi_shape, scanner_vars, classifier_vars, selector_vars,
                   thread_vars, field_vars, crop_vars>>

NextRoi == ComputeRoi

SpecRoi == InitRoi /\ [][NextRoi]_vars


(***************************************************************************)
(* Two scans in flight on one instance: each thread runs the statements of *)
(* scan in order, one pipeline stage at a time, on the fields of self      *)
(***************************************************************************)
Threads == {1, 2}

\* a thread's locals in scan, with the ticket type its own classification
\* returned and the ticket types its later stages read from self
NewThread(image) ==
    [pc              |-> "classify",
     original_image  |-> image,
     own_type        |-> "None",
     preprocessed_as |-> "None",
     cropped_as      |-> "None",
     working_from    |-> "None",
     working_image   |-> NoView,
     config_name     |-> "None",
     now             |-> 0,
     outcome         |-> EmptyDict]

InitInterleaved ==
    /\ debug_roi = FALSE
    /\ ScannerInit
    /\ threads \in [Threads -> {NewThread(image) : image \in Images}]
    /\ preprocessed_from = "None"
    /\ ClassifierIdle /\ SelectorIdle /\ RoiIdle /\ FieldIdle /\ CropIdle

Abort(t, exception) ==
    threads' = [threads EXCEPT ![t].pc = "done", ![t].outcome = [error |-> exception]]

\* cv2.imread, self.image_basename = ..., self.ticket_type = ...
ThreadClassify(t) ==
    /\ threads[t].pc = "classify"
    /\ LET image == threads[t].original_image
           type  == DetermineTicketType(image, debug_roi)
       IN  IF ~image.decodable
           THEN /\ Abort(t, LoadFailure(Self).exception)
                /\ UNCHANGED <<ticket_type, image_basename>>
           ELSE /\ image_basename' = image.name
                /\ IF type.raised
                   THEN /\ Abort(t, type.exception)
                        /\ UNCHANGED ticket_type
                   ELSE /\ ticket_type' = type.label
                        /\ threads' = [threads EXCEPT ![t].pc = "preprocess",
                                                      ![t].own_type = type.label]
    /\ UNCHANGED <<extracted_data, confidence_scores, preprocessed_image,
                   preprocessed_from, debug_roi, output, call, scans,
                   classifier_vars, selector_vars, roi_vars, field_vars, crop_vars>>

\* self.preprocessed_image = self._preprocess_image(original_image)
ThreadPreprocess(t) ==
    /\ threads[t].pc = "preprocess"
    /\ preprocessed_image' = PreprocessImage(threads[t].original_image, ticket_type)
    /\ preprocessed_from' = threads[t].original_image
    /\ threads' = [threads EXCEPT ![t].pc = "crop",
                                  ![t].preprocessed_as = ticket_type]
    /\ UNCHANGED <<ticket_type, extracted_data, confidence_scores, image_basename,
                   debug_roi, output, call, scans,
                   classifier_vars, selector_vars, roi_vars, field_vars, crop_vars>>

\* cropped_image = self._crop_ticket(self.preprocessed_image) and the choice
\* of working_image
ThreadCrop(t) ==
    /\ threads[t].pc = "crop"
    /\ threads' = [threads EXCEPT
                     ![t].pc = "select",
                     ![t].cropped_as = ticket_type,
                     ![t].working_from = preprocessed_from,
                     ![t].working_image =
                         WorkingImage(preprocessed_from, preprocessed_image, ticket_type)]
    /\ UNCHANGED <<scanner_vars, preprocessed_from,
                   classifier_vars, selector_vars, roi_vars, field_vars, crop_vars>>

\* config_name = self._select_configuration(working_image)
ThreadSelect(t) ==
    /\ threads[t].pc = "select"
    /\ threads' = [threads EXCEPT
                     ![t].pc = "extract",
                     ![t].config_name =
                         SelectConfiguration(ViewText(threads[t].working_from,
                                                      threads[t].working_image))]
    /\ UNCHANGED <<scanner_vars, preprocessed_from,
                   classifier_vars, selector_vars, roi_vars, field_vars, crop_vars>>

\* self.extracted_data = self._extract_ticket_details(working_image, config_name)
ThreadExtract(t) ==
    /\ threads[t].pc = "extract"
    /\ LET extracted == ExtractTicketDetails(threads[t].working_from,
                                             threads[t].working_image,
                                             threads[t].config_name, confidence_scores)
       IN  /\ extracted_data' = extracted.details
           /\ confidence_scores' = extracted.confidence_scores
    /\ threads' = [threads EXCEPT ![t].pc = "reference"]
    /\ UNCHANGED <<ticket_type, preprocessed_image, image_basename, preprocessed_from,
                   debug_roi, output, call, scans,
                   classifier_vars, selector_vars, roi_vars, field_vars, crop_vars>>

\* if 'ticket_reference' not in self.extracted_data: self._generate_ticket_reference()
ThreadReference(t, now) ==
    /\ threads[t].pc = "reference"
    /\ LET final == WithReference([details |-> extracted_data,
                                   confidence_scores |-> confidence_scores], now)
       IN  /\ extracted_data' = final.extracted_data
           /\ confidence_scores' = final.confidence_scores
    /\ threads' = [threads EXCEPT ![t].pc = "return", ![t].now = now]
    /\ UNCHANGED <<ticket_type, preprocessed_image, image_basename, preprocessed_from,
                   debug_roi, output, call, scans,
                   classifier_vars, selector_vars, roi_vars, field_vars, crop_vars>>

\* the return statement of scan
ThreadReturn(t) ==
    /\ threads[t].pc = "return"
    /\ threads' = [threads EXCEPT
                     ![t].pc = "done",
                     ![t].outcome = [ticket_type        |-> ticket_type,
                                     configuration_used |-> threads[t].config_name,
                                     data               |-> extracted_data,
                                     confidence         |-> confidence_scores]]
    /\ UNCHANGED <<scanner_vars, preprocessed_from,
                   classifier_vars, selector_vars, roi_vars, field_vars, crop_vars>>

NextInterleaved ==
    \E t \in Threads :
        \/ ThreadClassify(t)
        \/ ThreadPreprocess(t)
        \/ ThreadCrop(t)
        \/ ThreadSelect(t)
        \/ ThreadExtract(t)
        \/ \E now \in Timestamps : ThreadReference(t, now)
        \/ ThreadReturn(t)

SpecInterleaved == InitInterleaved /\ [][NextInterleaved]_vars

(***************************************************************************)
(* A field whose region is not within the unit square, or is inverted, read *)
(* on a page that prints a reference at every pixel                        *)
(***************************************************************************)
MaxPage == 4

MalformedRatios == {-50, 0, 50, 120}

\* the regions that violate 0 <= x1 < x2 <= 1 or 0 <= y1 < y2 <= 1
MalformedRegions ==
    {r \in MalformedRatios \X MalformedRatios \X MalformedRatios \X MalformedRatios :
        ~ (/\ 0 <= r[1] /\ r[1] < r[3] /\ r[3] <= 100
           /\ 0 <= r[2] /\ r[2] < r[4] /\ r[4] <= 100)}

\* "Ref: AB12" at column x of row y, for every column of the row
RECURSIVE RowOfBlocks(_, _)
RowOfBlocks(width, y) ==
    IF width = 0 THEN <<>>
    ELSE RowOfBlocks(width - 1, y)
         \o <<Block(width - 1, y, <<82, 101, 102, 58, 32, 65, 66, 49, 50>>)>>

RECURSIVE PageBlocks(_, _)
PageBlocks(width, height) ==
    IF height = 0 THEN <<>>
    ELSE PageBlocks(width, height - 1) \o RowOfBlocks(width, height - 1)

Page(shape) ==
    [blank EXCEPT !.name = "page", !.width = shape.width, !.height = shape.height,
                  !.blocks = PageBlocks(shape.width, shape.height)]

\* the ticket_reference field of configs["generic"], with the region
ReferenceFieldAt(region) == [GenericFields[6] EXCEPT !.region = region]

InitMalformed ==
    /\ debug_roi = FALSE
    /\ ScannerInit
    /\ roi_region \in MalformedRegions
    /\ roi_shape \in [width : 1..MaxPage, height : 1..MaxPage]
    /\ roi = NoRoi
    /\ ClassifierIdle /\ SelectorIdle
    /\ ThreadsIdle /\ FieldIdle /\ CropIdle

\* one iteration of the loop over the fields, on the whole page
ReadRegion ==
    /\ ~roi.computed
    /\ LET bounds == RoiBounds(roi_region, roi_shape.width, roi_shape.height)
           view   == View("enhanced", 0, 0, roi_shape.width, roi_shape.height)
       IN  roi' = [computed  |-> TRUE,
                   bounds    |-> bounds,
                   skipped   |-> RoiEmpty(RoiSlice(bounds, roi_shape.width,
                                                   roi_shape.height)),
                   text      |-> FieldText(Page(roi_shape), view, roi_region),
                   extracted |-> ExtractField(ReferenceFieldAt(roi_region),
                                              Page(roi_shape), view,
                                              [details |-> EmptyDict,
                                               confidence_scores |-> EmptyDict])]
    /\ UNCHANGED <<roi_region, roi_shape, scanner_vars, classifier_vars, selector_vars,
                   thread_vars, field_vars, crop_vars>>

NextMalformed == ReadRegion

SpecMalformed == InitMalformed /\ [][NextMalformed]_vars

(***************************************************************************)
(* The two pattern loops on their own: configured fields on texts that a   *)
(* pattern matches, that only a cleaned pattern occurs in, or neither      *)
(***************************************************************************)
\* "Out:\sA-Z3\s-\sA-Z3 LHR to somewhere far away and beyond\n"
d_out_line == <<79, 117, 116, 58, 92, 115, 65, 45, 90, 51, 92, 115, 45, 92, 115, 65, 45, 90, 51, 32, 76, 72, 82, 32, 116, 111, 32, 115, 111, 109, 101, 119, 104, 101, 114, 101, 32, 102, 97, 114, 32, 97, 119, 97, 121, 32, 97, 110, 100, 32, 98, 101, 121, 111, 110, 100, 10>>

\* "Ret: LHR - JFK\n"
d_ret_match == <<82, 101, 116, 58, 32, 76, 72, 82, 32, 45, 32, 74, 70, 75, 10>>

\* "Ret:\sA-Z3\s-\sA-Z3"
d_ret == <<82, 101, 116, 58, 92, 115, 65, 45, 90, 51, 92, 115, 45, 92, 115, 65, 45, 90, 51>>

\* "Out:\sA-Z3\s-\sA-Z3"
d_out == <<79, 117, 116, 58, 92, 115, 65, 45, 90, 51, 92, 115, 45, 92, 115, 65, 45, 90, 51>>

\* "\n"
d_newline == <<10>>

\* " Y\n"
d_value_line == <<32, 89, 10>>

\* " Y"
d_value == <<32, 89>>

\* "  padded value  \nnext"
d_padded == <<32, 32, 112, 97, 100, 100, 101, 100, 32, 118, 97, 108, 117, 101, 32, 32, 10, 110, 101, 120, 116>>

\* "Class: STANDARD\n"
c_class_standard == <<67, 108, 97, 115, 115, 58, 32, 83, 84, 65, 78, 68, 65, 82, 68, 10>>

\* "FIRST CLASS\n"
c_first_class == <<70, 73, 82, 83, 84, 32, 67, 76, 65, 83, 83, 10>>

\* "Type: Anytime, Adult\nSTANDARD CLASS\n"
c_type_anytime == <<84, 121, 112, 101, 58, 32, 65, 110, 121, 116, 105, 109, 101, 44, 32, 65, 100, 117, 108, 116, 10, 83, 84, 65, 78, 68, 65, 82, 68, 32, 67, 76, 65, 83, 83, 10>>

\* "  STANDARD CLASS  "
c_padded == <<32, 32, 83, 84, 65, 78, 68, 65, 82, 68, 32, 67, 76, 65, 83, 83, 32, 32>>

\* "no match here"
c_none == <<110, 111, 32, 109, 97, 116, 99, 104, 32, 104, 101, 114, 101>>

\* "From: Reading to Oxford\n"
o_from_reading == <<70, 114, 111, 109, 58, 32, 82, 101, 97, 100, 105, 110, 103, 32, 116, 111, 32, 79, 120, 102, 111, 114, 100, 10>>

\* "ORIGIN London\n"
o_origin_london == <<79, 82, 73, 71, 73, 78, 32, 76, 111, 110, 100, 111, 110, 10>>

\* "Travel from Bath, then on\n"
o_from_bath == <<84, 114, 97, 118, 101, 108, 32, 102, 114, 111, 109, 32, 66, 97, 116, 104, 44, 32, 116, 104, 101, 110, 32, 111, 110, 10>>

\* "Date 12 Jan 2024 extra"
t_date_extra == <<68, 97, 116, 101, 32, 49, 50, 32, 74, 97, 110, 32, 50, 48, 50, 52, 32, 101, 120, 116, 114, 97>>

\* "Valid: 01/02/2024\n"
t_valid_numeric == <<86, 97, 108, 105, 100, 58, 32, 48, 49, 47, 48, 50, 47, 50, 48, 50, 52, 10>>

\* "Date\n"
t_date_only == <<68, 97, 116, 101, 10>>

\* ":DateValid:\s0-91,2\/\\-0-91,2\/\\-0-92,4 12 Jan\n"
t_cleaned_date == <<58, 68, 97, 116, 101, 86, 97, 108, 105, 100, 58, 92, 115, 48, 45, 57, 49, 44, 50, 92, 47, 92, 92, 45, 48, 45, 57, 49, 44, 50, 92, 47, 92, 92, 45, 48, 45, 57, 50, 44, 52, 32, 49, 50, 32, 74, 97, 110, 10>>

\* "Eticket 123\n"
p_eticket == <<69, 116, 105, 99, 107, 101, 116, 32, 49, 50, 51, 10>>

\* "via TRAINLINE app\n"
p_trainline == <<118, 105, 97, 32, 84, 82, 65, 73, 78, 76, 73, 78, 69, 32, 97, 112, 112, 10>>

DirectionTexts ==
    {a \o b \o c : a \in {<<>>, d_out_line, d_ret_match},
                     b \in {<<>>, d_ret, d_out},
                     c \in {<<>>, d_newline, d_value_line, d_value, d_padded}}

ProviderTexts == {p_eticket, p_trainline}

ClassTexts == {c_class_standard, c_first_class, c_type_anytime, c_padded, c_none, <<>>}

OriginTexts == {o_from_reading, o_origin_london, o_from_bath}

DateTexts == {t_date_extra, t_valid_numeric, t_date_only, t_cleaned_date}

FieldCase(field, text) == [field |-> field, text |-> text]

FieldCases ==
    {FieldCase(get_trainline_configuration[7], text) : text \in DirectionTexts}
    \cup {FieldCase(get_trainline_configuration[1], text) : text \in ProviderTexts}
    \cup {FieldCase(GenericFields[4], text) : text \in ClassTexts}
    \cup {FieldCase(GenericFields[1], text) : text \in OriginTexts}
    \cup {FieldCase(field, text) : field \in {GenericFields[3], GwrFields[3]},
                                   text \in DateTexts}

\* self.confidence_scores before the field: empty, or the field's score from
\* an earlier scan
EarlierScores(field) == {EmptyDict, field.name :> ReferenceConfidence}

InitField ==
    /\ debug_roi = FALSE
    /\ ScannerInit
    /\ \E c \in FieldCases :
          \E earlier \in EarlierScores(c.field) :
             field_case = [field |-> c.field, text |-> c.text, earlier |-> earlier]
    /\ field_result = NoResult
    /\ ClassifierIdle /\ SelectorIdle /\ RoiIdle /\ ThreadsIdle /\ CropIdle

\* lines 548-574 for the field, details being empty before it
Store ==
    /\ ~field_result.done
    /\ LET acc == StoreField(field_case.field, field_case.text,
                             [details |-> EmptyDict,
                              confidence_scores |-> field_case.earlier])
       IN  field_result' = [done |-> TRUE, details |-> acc.details,
                            confidence_scores |-> acc.confidence_scores]
    /\ UNCHANGED <<field_case, scanner_vars, classifier_vars, selector_vars, roi_vars,
                   thread_vars, crop_vars>>

NextField == Store

SpecField == InitField /\ [][NextField]_vars

(***************************************************************************)
(* _crop_ticket on its own: an image 20 wide and 10 high (area 200, so 20% *)
(* is 40 and 30% is 60) with contours on and about each threshold          *)
(***************************************************************************)
MaxContours == 2

CropWidth == 20
CropHeight == 10

\* Contour(vertices of the approximation, x, y, w, h, cv2.contourArea)
CropContours == {
    Contour(4, 2, 1, 10, 5, 48),    \* 2.0, 50 of 200
    Contour(4, 1, 1, 8, 4, 30),     \* 2.0, 32 of 200: too small
    Contour(4, 3, 2, 8, 5, 38),     \* 1.6, 40 of 200: exactly 20%
    Contour(4, 0, 0, 9, 5, 44),     \* 1.8 exactly, 45 of 200
    Contour(4, 5, 3, 10, 4, 36),    \* 2.5 exactly, 40 of 200
    Contour(4, 4, 2, 6, 6, 34),     \* 1.0 exactly, 36 of 200
    Contour(5, 1, 2, 12, 5, 52),    \* five vertices, 60 of 200: exactly 30%
    Contour(5, 2, 3, 13, 5, 56),    \* five vertices, 65 of 200
    Contour(6, 6, 4, 4, 4, 12) }    \* six vertices, 16 of 200

\* five small contours of larger area before a quadrilateral that would suit
SixContours == <<
    Contour(5, 0, 0, 4, 4, 16), Contour(5, 4, 0, 4, 4, 15), Contour(5, 8, 0, 4, 4, 14),
    Contour(5, 12, 0, 4, 4, 13), Contour(5, 16, 0, 4, 4, 12), Contour(4, 2, 4, 10, 5, 10) >>

ContourLists ==
    {SixContours} \cup UNION {[1..n -> CropContours] : n \in 0..MaxContours}

\* the image given to _crop_ticket and what cv2.findContours reports on it
CropImage(contours) ==
    [blank EXCEPT !.name = "crop", !.width = CropWidth, !.height = CropHeight,
                  !.contours = [binarized |-> contours, enhanced |-> contours,
                                warped |-> contours]]

CropView(type) ==
    View(IF type = "paper" THEN "binarized" ELSE "enhanced", 0, 0, CropWidth, CropHeight)

InitCrop ==
    /\ debug_roi = FALSE
    /\ ScannerInit
    /\ crop_case \in [type : {"paper", "digital"}, contours : ContourLists]
    /\ cropped = NoResult
    /\ ClassifierIdle /\ SelectorIdle /\ RoiIdle /\ ThreadsIdle /\ FieldIdle

Crop ==
    /\ ~cropped.done
    /\ cropped' = [done |-> TRUE,
                   view |-> CropTicket(CropImage(crop_case.contours),
                                       CropView(crop_case.type), crop_case.type),
                   working_image |-> WorkingImage(CropImage(crop_case.contours),
                                                  CropView(crop_case.type),
                                                  crop_case.type)]
    /\ UNCHANGED <<crop_case, scanner_vars, classifier_vars, selector_vars, roi_vars,
                   thread_vars, field_vars>>

NextCrop == Crop

SpecCrop == InitCrop /\ [][NextCrop]_vars
(***************************************************************************)
(* Properties of a scanner instance (Spec)                                 *)
(***************************************************************************)
ImageNamed(name) == CHOOSE image \in Images : image.name = name

Scanned == ImageNamed(call.image)

\* the caller got a result record, not an error record
IsResult(out) == "data" \in DOMAIN out

IsError(out) == DOMAIN out = {"error"}

\* C1: in every result record the confidence mapping and the data mapping
\* have the same keys, and every confidence value lies in [0.0, 1.0],
\* whether the reference was extracted or synthesized.
C1_ConfidenceKeysAreDataKeys ==
    IsResult(output) =>
        /\ DOMAIN output.confidence = DOMAIN output.data
        /\ \A name \in DOMAIN output.confidence : output.confidence[name] \in 0..10

\* the first scan of an instance synthesized a reference
C1_SynthesizedOnFirstScan ==
    /\ scans = 1
    /\ IsResult(output)
    /\ "is_reference_generated" \in DOMAIN output.data

\* what a newly constructed instance gives the caller for the last call
FreshOutput == Printed(scan(NewScanner(debug_roi), Scanned, call.now))

\* C2: scans are stateless: the record a scan returns is the one a freshly
\* constructed instance returns for the same image (at the same clock
\* reading), so its confidence mapping holds nothing from an earlier scan.
C2_ScanEqualsFreshScan == scans > 0 => output = FreshOutput

\* a second scan returned a result after a first one had returned a result
C2_SecondResult ==
    /\ scans = 2
    /\ IsResult(output)
    /\ ticket_type # "None"

\* C3: when the image cannot be decoded, the caller gets a record whose only
\* key is 'error', and ticket_type, extracted_data, confidence_scores and
\* preprocessed_image are as they were before the scan.
C3_UndecodableImageAborts ==
    [][(call'.image # "None" /\ ~ImageNamed(call'.image).decodable) =>
          /\ IsError(output')
          /\ UNCHANGED <<ticket_type, extracted_data, confidence_scores,
                         preprocessed_image>>]_vars

\* an undecodable image scanned by an instance that holds an earlier result
C3_FailedAfterResult ==
    /\ scans = 2
    /\ ~Scanned.decodable
    /\ IsError(output)
    /\ ticket_type \in {"paper", "digital"}
    /\ extracted_data # EmptyDict
    /\ confidence_scores # EmptyDict
    /\ preprocessed_image # NoView

\* C4: a decodable image never makes scan raise, with debug mode on or off,
\* when no line, no QR code, no contour, no pattern match or no text is
\* found: the scan completes with a full result record.  (Images with fewer
\* than ten rows are left aside: their top strip is empty.)
C4_DecodableImageGivesResult ==
    (scans > 0 /\ Scanned.decodable /\ Scanned.height >= 10) => IsResult(output)

\* a scan of an image with no line, in debug mode
C4_NoLinesInDebugMode ==
    /\ scans > 0
    /\ Scanned.decodable /\ Scanned.height >= 10
    /\ ~Scanned.lines.found
    /\ debug_roi

\* C8: the 'configuration_used' value of a result names a key of the
\* scanner's configuration table, so the extractor applied that
\* configuration's field list and substituted no other.
C8_ConfigurationUsedIsConfigured ==
    IsResult(output) =>
        /\ output.configuration_used \in DOMAIN configurations
        /\ ConfigFor(output.configuration_used) = configurations[output.configuration_used]

\* a result whose configuration name came from an issuer keyword
C8_IssuerSelected ==
    /\ IsResult(output)
    /\ output.configuration_used \notin {"generic_digital", "trainline_app"}

\* the fields the extractor finds on the last image
ExtractedNow ==
    LET type == output.ticket_type
        working_image == WorkingImage(Scanned, PreprocessImage(Scanned, type), type)
    IN  ExtractTicketDetails(Scanned, working_image, output.configuration_used,
                             EmptyDict).details

\* the last six decimal digits of a clock reading
SixDigits(now) == [i \in 1..6 |-> 48 + ((now \div (10 ^ (6 - i))) % 10)]

\* the code when present, else the first three characters of the station
\* name in upper case, else nothing
Token(data, code, station) ==
    IF code \in DOMAIN data THEN <<data[code]>>
    ELSE IF station \in DOMAIN data
    THEN <<[i \in 1..(IF Len(data[station]) < 3 THEN Len(data[station]) ELSE 3) |->
                UpperChar(data[station][i])]>>
    ELSE <<>>

ExpectedReference ==
    Join(<<45>>, Token(ExtractedNow, "origin_code", "origin_station")
                    \o Token(ExtractedNow, "destination_code", "destination_station")
                    \o <<SixDigits(call.now)>>)

\* C9: when extraction produced no 'ticket_reference', the reference is the
\* '-'-join of the origin token (origin_code, else origin_station[:3] in upper
\* case) if any, the destination token likewise, and the last six digits of
\* the Unix timestamp; its confidence is 0.5 and is_reference_generated is
\* true.
C9_SynthesizedReference ==
    (IsResult(output) /\ "ticket_reference" \notin DOMAIN ExtractedNow) =>
        /\ output.data = DictSet(DictSet(ExtractedNow, "ticket_reference", ExpectedReference),
                                 "is_reference_generated", TRUE)
        /\ output.confidence["ticket_reference"] = 5

\* origin_code 'LVP' and destination_code 'GRA' at a clock reading that ends
\* in 000042: the reference is "LVP-GRA-000042"
C9_LvpGra ==
    /\ IsResult(output)
    /\ {"is_reference_generated", "origin_code", "destination_code"}
          \subseteq DOMAIN output.data
    /\ output.data["origin_code"] = <<76, 86, 80>>
    /\ output.data["destination_code"] = <<71, 82, 65>>
    /\ output.data["ticket_reference"]
          = <<76, 86, 80, 45, 71, 82, 65, 45, 48, 48, 48, 48, 52, 50>>

(***************************************************************************)
(* Properties of the classifier (SpecClassify)                             *)
(***************************************************************************)
\* C5: debug mode does not affect classification: with debug_roi set the
\* classifier returns a label wherever it returns one without, and the same
\* label, also when no line is found.
C5_DebugKeepsLabel ==
    (DOMAIN classified = BOOLEAN /\ ~classified[FALSE].raised) =>
        /\ ~classified[TRUE].raised
        /\ classified[TRUE].label = classified[FALSE].label

\* an image without lines classified both ways
C5_NoLinesBothWays ==
    /\ DOMAIN classified = BOOLEAN
    /\ ~photo.lines.found

\* C6: for every combination of feature values the classifier returns
\* 'paper' exactly when 1.5*orange_bar + 1.0*texture + 0.8*perspective
\* + 0.7*shadow - 2.0*digital_elements > 0.5, and 'digital' otherwise
\* (both sides in tenths).
C6_PaperIffScoreAboveHalf ==
    \A debug \in DOMAIN classified :
        ~classified[debug].raised =>
            LET f == classified[debug].features
            IN  /\ f.orange_bar \in {0, 1} /\ f.texture \in {0, 1}
                /\ f.perspective \in {0, 1} /\ f.shadow \in {0, 1}
                /\ f.digital_elements \in 0..3
                /\ classified[debug].label =
                      IF 15 * f.orange_bar + 10 * f.texture + 8 * f.perspective
                            + 7 * f.shadow - 20 * f.digital_elements > 5
                      THEN "paper" ELSE "digital"

\* a score of exactly 0.5 (orange bar, texture and a QR code): 'digital'
C6_ScoreOfHalf ==
    /\ FALSE \in DOMAIN classified
    /\ ~classified[FALSE].raised
    /\ classified[FALSE].features
          = [orange_bar |-> 1, texture |-> 1, perspective |-> 0, shadow |-> 0,
             digital_elements |-> 1]
    /\ classified[FALSE].label = "digital"

(***************************************************************************)
(* Properties of the configuration selection (SpecSelect)                  *)
(***************************************************************************)
Mentions(keyword) == Contains(keyword, Lower(ocr_text))

MentionsGwr == Mentions(s_great_western) \/ Mentions(s_gwr)
MentionsLner == Mentions(s_lner) \/ Mentions(s_london_north_eastern)

MentionsAnyIssuer ==
    \/ MentionsGwr \/ MentionsLner
    \/ Mentions(s_transport_for_london) \/ Mentions(s_tfl) \/ Mentions(s_oyster)
    \/ Mentions(s_avanti) \/ Mentions(s_west_coast)
    \/ Mentions(s_trainline) \/ Mentions(s_mobile_ticket) \/ Mentions(s_qr_code)

\* C7 as stated: a text containing 'transport for london' in any letter case
\* selects 'tfl' whatever else it contains, and a text with no issuer
\* keyword selects the default.
C7_TflWhateverElse ==
    selected # "None" =>
        /\ Mentions(s_transport_for_london) => selected = "tfl"
        /\ ~MentionsAnyIssuer => selected = "generic_digital"

\* C7: a text containing 'transport for london' in any letter case selects
\* 'tfl' unless it also contains a gwr or lner keyword, which come first in
\* the table and then select 'gwr' or 'lner'; a text with no issuer keyword
\* selects the default, 'generic_digital'.
C7_TflUnlessGwrOrLner ==
    selected # "None" =>
        /\ (Mentions(s_transport_for_london) /\ ~MentionsGwr /\ ~MentionsLner)
              => selected = "tfl"
        /\ (Mentions(s_transport_for_london) /\ MentionsGwr) => selected = "gwr"
        /\ (Mentions(s_transport_for_london) /\ ~MentionsGwr /\ MentionsLner)
              => selected = "lner"
        /\ ~MentionsAnyIssuer => selected = "generic_digital"

\* 'TRANSPORT FOR LONDON' in capitals, followed by a later issuer's name
C7_CapitalsBeforeAvanti ==
    /\ selected = "tfl"
    /\ Contains(w_tfl_upper, ocr_text)
    /\ Mentions(s_avanti)

(***************************************************************************)
(* Properties of the pixel bounds (SpecRoi)                                *)
(***************************************************************************)
Within(lo, hi, side) == 0 <= lo /\ lo <= hi /\ hi <= side

\* C10 as stated: for a valid region and any image size the pixel bounds are
\* non-negative, within the image and describe a non-empty crop, so the
\* field is never skipped.
C10_RoiNeverEmpty ==
    roi.computed =>
        /\ Within(roi.bounds.roi_x1, roi.bounds.roi_x2, roi_shape.width)
        /\ Within(roi.bounds.roi_y1, roi.bounds.roi_y2, roi_shape.height)
        /\ roi.bounds.roi_x1 < roi.bounds.roi_x2
        /\ roi.bounds.roi_y1 < roi.bounds.roi_y2
        /\ ~roi.skipped

\* C10: for a valid region and any image size the pixel bounds are
\* non-negative, within the image and ordered; the crop is non-empty when the
\* region spans at least two pixels each way, and the field is skipped
\* exactly when two bounds coincide.
C10_RoiWithinImage ==
    roi.computed =>
        /\ Within(roi.bounds.roi_x1, roi.bounds.roi_x2, roi_shape.width)
        /\ Within(roi.bounds.roi_y1, roi.bounds.roi_y2, roi_shape.height)
        /\ ( /\ (roi_region[3] - roi_region[1]) * roi_shape.width >= 200
             /\ (roi_region[4] - roi_region[2]) * roi_shape.height >= 200 )
              => ( /\ roi.bounds.roi_x1 < roi.bounds.roi_x2
                   /\ roi.bounds.roi_y1 < roi.bounds.roi_y2 )
        /\ roi.skipped <=> ( \/ roi.bounds.roi_x1 = roi.bounds.roi_x2
                             \/ roi.bounds.roi_y1 = roi.bounds.roi_y2 )

\* the provider field's region (0.13, 0.12, 0.3, 0.14) on an image ten rows
\* high: rows 1 to 1, an empty crop
C10_ProviderRegionSkipped ==
    /\ roi.computed
    /\ roi_region = <<13, 12, 30, 14>>
    /\ roi_shape.height = 10
    /\ roi.skipped


(***************************************************************************)
(* Scans of one instance whose stages interleave                           *)
(***************************************************************************)
\* the stages a thread has behind it
Past(t, stage) ==
    CASE stage = "preprocess" -> threads[t].pc \in {"crop", "select", "extract", "reference",
                                                    "return"}
                                 \/ (threads[t].pc = "done" /\ IsResult(threads[t].outcome))
      [] stage = "crop" -> threads[t].pc \in {"select", "extract", "reference", "return"}
                           \/ (threads[t].pc = "done" /\ IsResult(threads[t].outcome))

\* what the thread's scan returns on an instance of its own
Alone(t) == Printed(scan(NewScanner(FALSE), threads[t].original_image, threads[t].now))

\* C11: scans whose stages interleave on one instance do not interfere: each
\* scan's preprocessing and cropping use the ticket type that scan classified,
\* and each returns the ticket_type, data and confidence it returns when run
\* alone.
C11_InterleavedScansDoNotInterfere ==
    \A t \in DOMAIN threads :
        /\ Past(t, "preprocess") => threads[t].preprocessed_as = threads[t].own_type
        /\ Past(t, "crop") => threads[t].cropped_as = threads[t].own_type
        /\ threads[t].pc = "done" /\ IsResult(threads[t].outcome) =>
              /\ threads[t].outcome.ticket_type = Alone(t).ticket_type
              /\ threads[t].outcome.data = Alone(t).data
              /\ threads[t].outcome.confidence = Alone(t).confidence

\* a paper ticket preprocessed as a digital one, the other thread having
\* classified in between
C11_PreprocessedAsTheOthers ==
    \E t \in DOMAIN threads :
        /\ threads[t].own_type = "paper"
        /\ threads[t].preprocessed_as = "digital"

(***************************************************************************)
(* The order of the issuer table (SpecSelect)                              *)
(***************************************************************************)
\* the entries of the table one of whose keywords occurs in the lower-cased text
Matching ==
    {k \in 1..Len(Indicators) :
        \E i \in 1..Len(Indicators[k].indicators) : Mentions(Indicators[k].indicators[i])}

\* C12: _select_configuration returns the name of the earliest entry of the
\* table (gwr, lner, tfl, avanti, trainline_app, generic_digital) one of
\* whose keywords is a substring of the lower-cased text; the entry with the
\* empty keyword list is last and is the result exactly when no earlier entry
\* matched; a name of the table is always returned.
C12_EarliestMatchingEntry ==
    selected # "None" =>
        /\ \E k \in 1..Len(Indicators) : selected = Indicators[k].config_name
        /\ \A k \in Matching :
              (\A j \in Matching : k <= j) => selected = Indicators[k].config_name
        /\ Indicators[Len(Indicators)].indicators = <<>>
        /\ \A k \in 1..(Len(Indicators) - 1) : Indicators[k].indicators # <<>>
        /\ selected = Indicators[Len(Indicators)].config_name <=> Matching = {}

\* 'lner' comes first in the text and 'gwr.com' after it: gwr, first in the
\* table, is selected
C12_TableOrderNotTextOrder ==
    /\ selected = "gwr"
    /\ Matching = {1, 2}
    /\ Find(s_lner, Lower(ocr_text)) < Find(s_gwr, Lower(ocr_text))

(***************************************************************************)
(* Regions outside the unit square (SpecMalformed)                         *)
(***************************************************************************)
\* C13: a field whose region violates 0 <= x1 < x2 <= 1 or 0 <= y1 < y2 <= 1
\* (inverted, negative or greater than one) is skipped: no crop of it is
\* read, and the field gets no entry in data or in confidence.
C13_MalformedRegionSkipped ==
    roi.computed /\ roi_region \in MalformedRegions =>
        /\ roi.skipped
        /\ roi.text = <<>>
        /\ "ticket_reference" \notin DOMAIN roi.extracted.details
        /\ "ticket_reference" \notin DOMAIN roi.extracted.confidence_scores

\* a region that starts left of the image and ends right of it is read and
\* gives the field a value
C13_OutsideRegionRead ==
    /\ roi.computed
    /\ roi_region = <<-50, 0, 120, 50>>
    /\ roi_shape = [width |-> 4, height |-> 4]
    /\ roi.bounds = [roi_x1 |-> -2, roi_y1 |-> 0, roi_x2 |-> 4, roi_y2 |-> 2]
    /\ ~roi.skipped
    /\ "ticket_reference" \in DOMAIN roi.extracted.details
    /\ roi.extracted.confidence_scores["ticket_reference"] = HighConfidence

(***************************************************************************)
(* Properties of the pattern loops (SpecField)                             *)
(***************************************************************************)
FieldName == field_case.field.name

Patterns == field_case.field.patterns

Stored == FieldName \in DOMAIN field_result.details

\* the patterns that re.search finds in the text
Hits == {k \in 1..Len(Patterns) : Search(Patterns[k].re, field_case.text).found}

Least(S) == CHOOSE k \in S : \A j \in S : k <= j

\* C14: the patterns are tried in list order as case-insensitive multiline
\* searches; the value stored is the whole matched text, stripped, of the
\* first pattern that matches, with confidence 1.0, and no later pattern
\* replaces it.
C14_FirstPatternWholeMatch ==
    field_result.done /\ Hits # {} =>
        /\ Stored
        /\ field_result.details[FieldName] =
              Strip(Search(Patterns[Least(Hits)].re, field_case.text).group0)
        /\ field_result.confidence_scores[FieldName] = HighConfidence

\* 'Class: STANDARD': both patterns of the generic ticket_type match; the
\* first one's whole match is stored, label included
C14_ClassBeforeStandard ==
    /\ field_result.done
    /\ field_case.text = c_class_standard
    /\ Hits = {1, 2}
    /\ field_result.details[FieldName] = Strip(c_class_standard)
    /\ Search(Patterns[2].re, field_case.text).group0 = Slice(c_class_standard, 7, 15)

\* where the text continues after the first occurrence of a cleaned pattern
After_(k) ==
    Find(CleanPattern(Patterns[k].src), field_case.text)
        + Len(CleanPattern(Patterns[k].src))

\* the patterns whose cleaned form is non-empty and occurs in the text
Occurring ==
    {k \in 1..Len(Patterns) :
        /\ CleanPattern(Patterns[k].src) # <<>>
        /\ Contains(CleanPattern(Patterns[k].src), field_case.text)}

\* those of them whose first occurrence does not end the text
Followed == {k \in Occurring : After_(k) < Len(field_case.text)}

\* up to 30 characters after the occurrence, cut at the first newline, stripped
Following(k) == Strip(FirstLine(Slice(field_case.text, After_(k), After_(k) + 30)))

\* C15 as stated: when no pattern matched and the text is non-empty, the
\* first pattern whose cleaned form occurs in the text gives the value, with
\* confidence 0.6, also when its occurrence ends the text (the value is then
\* empty).
C15_FirstOccurringGivesValue ==
    field_result.done /\ Hits = {} /\ field_case.text # <<>> /\ Occurring # {} =>
        /\ Stored
        /\ field_result.details[FieldName] = Following(Least(Occurring))
        /\ field_result.confidence_scores[FieldName] = LowConfidence

\* C15: when no pattern matched and the text is non-empty, the first pattern
\* whose cleaned form is non-empty, occurs in the text and whose first
\* occurrence does not end the text gives the value: up to 30 characters
\* after that occurrence, cut at the first newline, stripped, with
\* confidence 0.6.  A pattern whose first occurrence ends the text is passed
\* over, and with no such pattern the field gets no value.
C15_FirstFollowedGivesValue ==
    field_result.done /\ Hits = {} /\ field_case.text # <<>> =>
        IF Followed # {}
        THEN /\ Stored
             /\ field_result.details[FieldName] = Following(Least(Followed))
             /\ field_result.confidence_scores[FieldName] = LowConfidence
        ELSE /\ ~Stored
             /\ field_result.confidence_scores = field_case.earlier

\* the first pattern's cleaned form ends the text: the second pattern's
\* gives the value
C15_OccurrenceAtEndPassedOver ==
    /\ field_result.done
    /\ field_case.text = d_out_line \o d_ret
    /\ Hits = {}
    /\ Occurring = {1, 2}
    /\ Followed = {2}
    /\ field_result.details[FieldName] = Slice(d_out_line, Len(d_out) + 1, Len(d_out) + 30)
    /\ field_result.confidence_scores[FieldName] = LowConfidence

\* "(?:Date|Valid)[:\s]+"
l_date_or_valid == <<40, 63, 58, 68, 97, 116, 101, 124, 86, 97, 108, 105, 100, 41, 91, 58, 92, 115, 93, 43>>

\* "Date"
l_date == <<68, 97, 116, 101>>

\* C16: cleaning a pattern of the form (?:Date|Valid)[:\s]+... gives 'Date',
\* so the text 'Date 12 Jan 2024 extra' gives the value '12 Jan 2024 extra'
\* with confidence 0.6.
C16_DatePatternCleansToLabel ==
    field_result.done =>
        \A k \in 1..Len(Patterns) :
            Prefix(Patterns[k].src, Len(l_date_or_valid)) = l_date_or_valid =>
                /\ CleanPattern(Patterns[k].src) = l_date
                /\ field_case.text = t_date_extra =>
                      /\ Stored
                      /\ field_result.details[FieldName] =
                            Slice(t_date_extra, 5, Len(t_date_extra))
                      /\ field_result.confidence_scores[FieldName] = LowConfidence

\* on 'Date 12 Jan 2024 extra' the generic date field is matched by its
\* second pattern: 'Date 12 Jan 2024' with confidence 1.0
C16_DateMatchedByPattern ==
    /\ field_result.done
    /\ field_case.field = GenericFields[3]
    /\ field_case.text = t_date_extra
    /\ Hits = {2}
    /\ Occurring = {}
    /\ field_result.details[FieldName] = Prefix(t_date_extra, 16)
    /\ field_result.confidence_scores[FieldName] = HighConfidence

\* C17: within one run a field ends in exactly one of three outcomes:
\* matched by a pattern (confidence 1.0), matched by the fallback
\* (confidence 0.6, only when no pattern matched), or absent (this run
\* writes it to neither mapping); a pattern's match is never replaced by
\* the fallback.
C17_OneOutcomePerField ==
    field_result.done =>
        /\ DOMAIN field_result.details \subseteq {FieldName}
        /\ Hits # {} =>
              /\ Stored
              /\ field_result.confidence_scores[FieldName] = HighConfidence
              /\ \E k \in Hits : field_result.details[FieldName] =
                                    Strip(Search(Patterns[k].re, field_case.text).group0)
        /\ Hits = {} /\ Stored =>
              /\ field_result.confidence_scores[FieldName] = LowConfidence
              /\ \E k \in Occurring : field_result.details[FieldName] = Following(k)
        /\ ~Stored => field_result.confidence_scores = field_case.earlier

\* 'Eticket 123': the pattern matches and its cleaned form occurs too; the
\* pattern's match stays, and replaces the score of an earlier scan
C17_MatchKeptWhereFallbackApplies ==
    /\ field_result.done
    /\ field_case.text = p_eticket
    /\ field_case.earlier # EmptyDict
    /\ Hits = {1}
    /\ Followed = {1}
    /\ field_result.details[FieldName] = Prefix(p_eticket, 7)
    /\ field_result.confidence_scores[FieldName] = HighConfidence

(***************************************************************************)
(* Properties of the crop (SpecCrop)                                       *)
(***************************************************************************)
\* the contours in descending order of area
Descending == SortedByArea(crop_case.contours)

InBand(c) ==
    IF crop_case.type = "paper"
    THEN 18 * c.h < 10 * c.w /\ 10 * c.w < 25 * c.h
    ELSE c.h < c.w /\ 10 * c.w < 25 * c.h

Box(c) == View(CropView(crop_case.type).pre, c.x, c.y, c.w, c.h)

\* the first of the five largest contours that has four vertices, is in the
\* band and whose box passes the test `enough`; else the box of the largest
\* contour when it passes the test `plenty`; else None
FirstOfFive(enough(_), plenty(_)) ==
    LET five  == {k \in 1..Len(Descending) :
                     /\ k <= 5
                     /\ Descending[k].npts = 4
                     /\ InBand(Descending[k])
                     /\ enough(Descending[k])}
    IN  IF five # {} THEN Box(Descending[Least(five)])
        ELSE IF Descending # <<>> /\ plenty(Descending[1]) THEN Box(Descending[1])
        ELSE NoView

PhraseInPhoto ==
    \E phrase \in {s_add_to_wallet, s_google_wallet, s_show_railcard, s_eticket} :
        Contains(phrase, Lower(TextOf(photo.blocks)))

\* C19: when the OCR text of the whole image contains 'add to wallet',
\* 'google wallet', 'show railcard' or 'eticket' in any letter case, the
\* classifier returns 'digital' for every combination of the other features;
\* a QR code alone does not: with a QR code and no phrase the label is
\* 'paper' exactly when the paper features weigh more than 2.5.
C19_PhraseForcesDigital ==
    \A debug \in DOMAIN classified :
        ~classified[debug].raised =>
            LET f == classified[debug].features
            IN  /\ PhraseInPhoto => classified[debug].label = "digital"
                /\ photo.has_qr /\ ~PhraseInPhoto =>
                      (classified[debug].label = "paper" <=>
                          15 * f.orange_bar + 10 * f.texture + 8 * f.perspective
                              + 7 * f.shadow > 25)

\* 'ADD TO WALLET' in capitals on a photo with all four paper features and
\* no QR code: 'digital'
C19_WalletOnPaperFeatures ==
    /\ FALSE \in DOMAIN classified
    /\ ~classified[FALSE].raised
    /\ photo.blocks = <<AddToWalletBlock>>
    /\ classified[FALSE].features
          = [orange_bar |-> 1, texture |-> 1, perspective |-> 1, shadow |-> 1,
             digital_elements |-> 2]
    /\ classified[FALSE].label = "digital"

=============================================================================
